---- MODULE Spec2Model ----
(***************************************************************************)
(* Engagement, social-graph, comment, notification, discovery and recipe   *)
(* lifecycle handlers of the recipe sharing API.                           *)
(*                                                                         *)
(* Every request handler is an async function: the code between two        *)
(* awaits runs without interruption, and each awaited store operation      *)
(* (findById, findByIdAndUpdate, document.save, Model.create) is one       *)
(* atomic step of the store.  An action of this module is therefore one    *)
(* awaited store operation together with the synchronous code that         *)
(* follows it up to the next await (or up to the response).                *)
(*                                                                         *)
(* Arrays of the documents are sequences, so that a duplicate entry is a   *)
(* state the model can be in.  averageRating is kept in tenths.            *)
(***************************************************************************)
EXTENDS Integers, Sequences, FiniteSets, TLC

\* ---- bounds ----
NumUsers == 2
NumRecipes == 1
MaxInFlight == 2
MaxArrayLen == 2
MaxRatings == 5
MaxComments == 3
MaxRequests == 4
MaxNotifications == 2
TickDays == 15
MaxDays == 45
MaxPerClass == 2
MaxPage == 3
MaxQueryLen == 3
MaxNameLen == 2
MaxIngredients == 2

\* ---- program constants ----
MinRating == 1
MaxRating == 5
DefaultPage == 1
DefaultLimit == 10
MaxPageSize == 100

UserIds == 1..NumUsers
RecipeIds == 1..NumRecipes
Slots == 1..MaxInFlight
\* an id that names no document (request parameters are arbitrary ids)
AbsentId == 0
UserParams == UserIds \cup {AbsentId}
RecipeParams == RecipeIds \cup {AbsentId}
CommentIds == 1..MaxComments
\* rating values a request body can carry: the valid ones and one on each side
RatingInputs == {MinRating - 1, MinRating, MaxRating, MaxRating + 1}

VARIABLES
  recipes,        \* RecipeIds -> Recipe document, or NoDoc
  userDocs,       \* UserIds -> User document (following, followers, favoriteRecipes)
  notifications,  \* the Notification collection, in creation order
  reqs,           \* Slots -> the request in flight in that slot, or Idle
  log,            \* the last two responses sent, oldest first
  avgIn,          \* a ratings array handed to the virtuals (SpecAvg)
  avgOut,         \* what the virtuals returned for it (SpecAvg)
  comments,       \* CommentIds -> Comment document, NoComment or DeletedComment
  now,            \* the clock of the store, in seconds
  started,        \* how many requests have arrived so far (counted up to MaxRequests)
  catalog,        \* the recipes a discovery query runs on (SpecDiscovery)
  found,          \* the response of a discovery query (SpecDiscovery)
  searchIn,       \* a recipe's ingredient names and an ingredients query (SpecSearch)
  searchOut       \* whether the search filter selects the recipe (SpecSearch)

vars == <<recipes, userDocs, notifications, comments, now, reqs, log, started, avgIn, avgOut,
          catalog, found, searchIn, searchOut>>

\* the variables of the specifications of pure functions
pureVars == <<avgIn, avgOut, catalog, found, searchIn, searchOut>>

NoDoc == [exists |-> FALSE]
\* a Recipe that was deleted: its id is never given to another document
DeletedRecipe == [exists |-> FALSE, deleted |-> TRUE]
Idle == [op |-> "idle"]
NoData == <<>>
\* an id no Comment was ever created with, and the id of a deleted Comment
NoComment == [exists |-> FALSE, deleted |-> FALSE]
DeletedComment == [exists |-> FALSE, deleted |-> TRUE]

\* ---------------------------------------------------------------------
\* Array helpers
\* ---------------------------------------------------------------------
Contains(s, x) == \E i \in 1..Len(s) : s[i] = x

\* Array.prototype.findIndex for the test "the element's key is x": the first
\* index whose key is x, 1-based; 0 stands for -1
FindIndex(keys, x) ==
  IF \E i \in 1..Len(keys) : keys[i] = x
  THEN CHOOSE i \in 1..Len(keys) : keys[i] = x /\ \A j \in 1..(i - 1) : keys[j] # x
  ELSE 0

\* Array.prototype.splice(i, 1)
Splice(s, i) == [j \in 1..(Len(s) - 1) |-> IF j < i THEN s[j] ELSE s[j + 1]]

NoDuplicates(s) == \A i, j \in 1..Len(s) : s[i] = s[j] => i = j

RECURSIVE SumRatings(_)
\* ratings.reduce((acc, rating) => acc + rating.rating, 0)
SumRatings(rs) ==
  IF rs = <<>> THEN 0 ELSE SumRatings(SubSeq(rs, 1, Len(rs) - 1)) + rs[Len(rs)].rating

\* (mutant: the quotient cut off instead of rounded)
MathRound_truncates(num, den) == num \div den

\* Math.round(num / den) for den > 0 and num >= 0: the nearest integer, a half goes up
MathRound(num, den) == (2 * num + den) \div (2 * den)

\* recipeSchema.virtual('averageRating'), in tenths:
\* Math.round((sum / length) * 10) / 10, and 0 for an empty array
averageRating(rs) ==
  IF Len(rs) = 0 THEN 0 ELSE MathRound(SumRatings(rs) * 10, Len(rs))

\* recipeSchema.virtual('ratingsCount')
ratingsCount(rs) == Len(rs)

\* recipeSchema.virtual('likesCount')
likesCount(ls) == Len(ls)

\* ---------------------------------------------------------------------
\* Notification collection
\* ---------------------------------------------------------------------
\* readAt of a notification that was never marked read (the path is not set)
NotRead == 0 - 1

\* the TTL index of the collection: expireAfterSeconds
ExpireAfterSeconds == 30 * 24 * 60 * 60

DaySeconds == 24 * 60 * 60

\* enum of notificationSchema.type
NotificationTypes ==
  {"recipe_like", "recipe_comment", "recipe_rating", "user_follow",
   "recipe_published", "comment_reply"}

\* (mutant: every document passes the validators)
ValidNotification_any(d) == TRUE

\* The schema validators Model.create runs before the insert: recipient,
\* sender, type, title and message are required and type is one of the enum.
ValidNotification(d) ==
  /\ d.type \in NotificationTypes
  /\ d.hasTitle
  /\ d.hasMessage

\* Notification.create(doc): the collection afterwards (a failed validation
\* inserts nothing and rejects, see NotificationRejects)
NotificationCreate(d) ==
  IF ValidNotification(d)
  THEN Append(notifications, [recipient |-> d.recipient, sender |-> d.sender,
                              type |-> d.type, isRead |-> FALSE, exists |-> TRUE,
                              createdAt |-> now, readAt |-> NotRead])
  ELSE notifications

NotificationRejects(d) == ~ValidNotification(d)

\* ---------------------------------------------------------------------
\* Requests in flight and responses
\* ---------------------------------------------------------------------
Busy(s) == reqs[s].op # "idle"

AnyBusy == \E s \in Slots : Busy(s)

HasFreeSlot == \E s \in Slots : ~Busy(s)

FreeSlot == CHOOSE s \in Slots : ~Busy(s) /\ \A t \in Slots : t < s => Busy(t)

Snapshot(rc, ud, nt) == [recipes |-> rc, userDocs |-> ud, notifications |-> nt]

\* every request in flight now shares its lifetime with another one
\* (an overlapped request is not part of any sequential scenario: its snapshot
\* of the store is dropped)
MarkOverlap(rq) ==
  [s \in Slots |-> IF Busy(s) THEN [rq[s] EXCEPT !.overlap = TRUE, !.pre = NoData] ELSE rq[s]]

\* the response record of a request; pre and post are the store when the
\* request arrived and when its response was sent
Response(op, user, target, val, status, data, dbOps, overlap, pre, post) ==
  [op |-> op, user |-> user, target |-> target, val |-> val, status |-> status,
   data |-> data, dbOps |-> dbOps, overlap |-> overlap, pre |-> pre, post |-> post]

\* the log keeps the last two responses of a run of sequential requests; the
\* response of an overlapped request starts the log afresh
Logged(r) ==
  IF r.overlap \/ log = <<>> \/ log[Len(log)].overlap THEN <<r>>
  ELSE IF Len(log) < 2 THEN Append(log, r) ELSE <<log[2], r>>

\* the count of arrived requests after one more has arrived; the count stops at
\* MaxRequests
Arrived == IF started < MaxRequests THEN started + 1 ELSE started

\* fewer than MaxRequests requests have arrived
MoreRequests == started < MaxRequests

\* a request that is answered in its first step
\* (rc, ud, nt: the store after the step)
Immediate(op, user, target, val, status, data, dbOps, rc, ud, nt) ==
  /\ reqs' = MarkOverlap(reqs)
  /\ started' = Arrived
  /\ log' = Logged(Response(op, user, target, val, status, data, dbOps, AnyBusy,
                            Snapshot(recipes, userDocs, notifications),
                            Snapshot(rc, ud, nt)))

\* a request that goes on after its first store operation
Begin(op, user, target, val, pc, doc, delta) ==
  /\ HasFreeSlot
  /\ started' = Arrived
  /\ reqs' = [MarkOverlap(reqs) EXCEPT ![FreeSlot] =
       [op |-> op, user |-> user, target |-> target, val |-> val, pc |-> pc,
        doc |-> doc, delta |-> delta, stale |-> FALSE, notified |-> FALSE, dbOps |-> 1,
        overlap |-> AnyBusy,
        pre |-> IF AnyBusy THEN NoData ELSE Snapshot(recipes, userDocs, notifications)]]
  /\ log' = log

\* the request of slot s sends its response and ends
\* (rq: the slots after the step's store operation; rc, ud, nt: the store after it)
Finish(s, rq, status, data, rc, ud, nt) ==
  /\ reqs' = [rq EXCEPT ![s] = Idle]
  /\ started' = started
  /\ log' = Logged(Response(reqs[s].op, reqs[s].user, reqs[s].target, reqs[s].val,
                            status, data, reqs[s].dbOps + 1, reqs[s].overlap,
                            reqs[s].pre,
                            IF reqs[s].overlap THEN NoData ELSE Snapshot(rc, ud, nt)))

\* the request of slot s goes on to its next await
Continue(s, pc) ==
  /\ reqs' = [reqs EXCEPT ![s].pc = pc, ![s].dbOps = @ + 1]
  /\ started' = started
  /\ log' = log

\* the request of slot s has inserted its notification and goes on to its
\* next await (notified records that the insert took place)
ContinueNotified(s, pc) ==
  /\ reqs' = [reqs EXCEPT ![s].pc = pc, ![s].dbOps = @ + 1, ![s].notified = TRUE]
  /\ started' = started
  /\ log' = log

\* ---------------------------------------------------------------------
\* document.save() of a Recipe loaded by findById
\* ---------------------------------------------------------------------
\* Mongoose sends the changes made to the loaded document, not the document:
\*   array.push(x)        -> $push, increments the version key, no version check
\*   array[i].field = v   -> $set of the positional path, checked against the
\*                           version key the document was loaded with
\*   array.splice(i, 1)   -> $set of the whole array, version checked and
\*                           incremented
\* The version key only grows, so "the stored version differs from the loaded
\* one" is the flag stale of a request, raised by every save that increments
\* the version of the document the request has loaded.
VersionBumped(rq, s, r) ==
  [t \in Slots |->
     IF t # s /\ Busy(t) /\ rq[t].op \in {"rate", "like"} /\ rq[t].target = r
     THEN [rq[t] EXCEPT !.stale = TRUE] ELSE rq[t]]

\* the version check of save: the document is still there with the loaded version
VersionMatches(s) == recipes[reqs[s].target].exists /\ ~reqs[s].stale

\* ---------------------------------------------------------------------
\* createRecipe
\* ---------------------------------------------------------------------
NextRecipeId == CHOOSE r \in RecipeIds : recipes[r] = NoDoc /\ \A q \in RecipeIds : q < r => recipes[q] # NoDoc

createRecipe(u) ==
  /\ \E r \in RecipeIds : recipes[r] = NoDoc
  /\ LET rc == [recipes EXCEPT ![NextRecipeId] =
                  [exists |-> TRUE, author |-> u, ratings |-> <<>>, likes |-> <<>>,
                   views |-> 0]]
     IN /\ recipes' = rc
        /\ Immediate("createRecipe", u, NextRecipeId, 0, "success", NoData, 1,
                     rc, userDocs, notifications)
  /\ UNCHANGED <<userDocs, notifications, comments, now, pureVars>>

\* ---------------------------------------------------------------------
\* rateRecipe
\* ---------------------------------------------------------------------
\* if (!rating || rating < 1 || rating > 5)
InvalidRating(v) == v = 0 \/ v < MinRating \/ v > MaxRating

\* recipe.ratings.findIndex(r => r.userId.toString() === userId)
existingRatingIndex(rs, u) == FindIndex([i \in 1..Len(rs) |-> rs[i].userId], u)

\* (mutant: the else branch pushes nothing)
RatedArray_noPush(rs, u, v) ==
  IF existingRatingIndex(rs, u) > 0
  THEN [rs EXCEPT ![existingRatingIndex(rs, u)].rating = v]
  ELSE rs

\* the in-memory ratings array after the if/else of rateRecipe
RatedArray(rs, u, v) ==
  IF existingRatingIndex(rs, u) > 0
  THEN [rs EXCEPT ![existingRatingIndex(rs, u)].rating = v]
  ELSE Append(rs, [userId |-> u, rating |-> v])

\* (mutant: the notification is emitted whoever the author is)
NotifiesAuthor_always(author, u) == TRUE

\* if (recipe.author.toString() !== userId)
NotifiesAuthor(author, u) == author # u

RatingNotification(author, u) ==
  [recipient |-> author, sender |-> u, type |-> "rating",
   hasTitle |-> FALSE, hasMessage |-> TRUE]

\* validation, Recipe.findById, and the in-memory update up to the next await
rateRecipe(u, r, v) ==
  /\ UNCHANGED <<recipes, userDocs, notifications, comments, now, pureVars>>
  /\ IF InvalidRating(v)
     THEN Immediate("rate", u, r, v, "ValidationError", NoData, 0,
                    recipes, userDocs, notifications)
     ELSE IF r \notin RecipeIds \/ ~recipes[r].exists
     THEN Immediate("rate", u, r, v, "NotFound", NoData, 1,
                    recipes, userDocs, notifications)
     ELSE LET rs == recipes[r].ratings
              i == existingRatingIndex(rs, u)
          IN Begin("rate", u, r, v,
                   IF i = 0 /\ NotifiesAuthor(recipes[r].author, u) THEN "notify" ELSE "save",
                   RatedArray(rs, u, v),
                   IF i > 0 THEN [kind |-> "set", index |-> i]
                            ELSE [kind |-> "push", index |-> 0])

\* await Notification.create({... type: 'rating' ...})
rateRecipe_notify(s) ==
  /\ Busy(s) /\ reqs[s].op = "rate" /\ reqs[s].pc = "notify"
  /\ LET d == RatingNotification(recipes[reqs[s].target].author, reqs[s].user)
     IN IF recipes[reqs[s].target].exists /\ ~NotificationRejects(d)
        THEN /\ notifications' = NotificationCreate(d)
             /\ ContinueNotified(s, "save")
        ELSE /\ notifications' = notifications
             /\ Finish(s, reqs, "NotificationError", NoData, recipes, userDocs, notifications)
  /\ UNCHANGED <<recipes, userDocs, comments, now, pureVars>>

\* await recipe.save(), then the response computed from the in-memory document
rateRecipe_save(s) ==
  /\ Busy(s) /\ reqs[s].op = "rate" /\ reqs[s].pc = "save"
  /\ LET r == reqs[s].target
         u == reqs[s].user
         v == reqs[s].val
         data == <<averageRating(reqs[s].doc), Len(reqs[s].doc)>>
     IN IF reqs[s].delta.kind = "push"
        THEN IF ~recipes[r].exists
             THEN /\ recipes' = recipes
                  /\ Finish(s, reqs, "DocumentNotFoundError", NoData,
                            recipes, userDocs, notifications)
             ELSE /\ Len(recipes[r].ratings) < MaxArrayLen
                  /\ LET rc == [recipes EXCEPT
                                  ![r].ratings = Append(@, [userId |-> u, rating |-> v])]
                     IN /\ recipes' = rc
                        /\ Finish(s, VersionBumped(reqs, s, r), "success", data,
                                  rc, userDocs, notifications)
        ELSE IF VersionMatches(s)
        THEN LET rc == [recipes EXCEPT ![r].ratings[reqs[s].delta.index].rating = v]
             IN /\ recipes' = rc
                /\ Finish(s, reqs, "success", data, rc, userDocs, notifications)
        ELSE /\ recipes' = recipes
             /\ Finish(s, reqs, "VersionError", NoData, recipes, userDocs, notifications)
  /\ UNCHANGED <<userDocs, notifications, comments, now, pureVars>>

\* ---------------------------------------------------------------------
\* toggleLikeRecipe
\* ---------------------------------------------------------------------
\* recipe.likes.findIndex(id => id.toString() === userId)
likedIndex(ls, u) == FindIndex(ls, u)

\* the in-memory likes array after the if/else of toggleLikeRecipe
ToggledArray(ls, u) ==
  IF likedIndex(ls, u) > 0 THEN Splice(ls, likedIndex(ls, u)) ELSE Append(ls, u)

LikeNotification(author, u) ==
  [recipient |-> author, sender |-> u, type |-> "like",
   hasTitle |-> FALSE, hasMessage |-> TRUE]

\* Recipe.findById and the in-memory toggle up to the next await
toggleLikeRecipe(u, r) ==
  /\ UNCHANGED <<recipes, userDocs, notifications, comments, now, pureVars>>
  /\ IF r \notin RecipeIds \/ ~recipes[r].exists
     THEN Immediate("like", u, r, 0, "NotFound", NoData, 1,
                    recipes, userDocs, notifications)
     ELSE LET ls == recipes[r].likes
              i == likedIndex(ls, u)
          IN Begin("like", u, r, 0,
                   IF i = 0 /\ NotifiesAuthor(recipes[r].author, u) THEN "notify" ELSE "save",
                   ToggledArray(ls, u),
                   IF i > 0 THEN [kind |-> "splice", index |-> i]
                            ELSE [kind |-> "push", index |-> 0])

\* await Notification.create({... type: 'like' ...})
toggleLikeRecipe_notify(s) ==
  /\ Busy(s) /\ reqs[s].op = "like" /\ reqs[s].pc = "notify"
  /\ LET d == LikeNotification(recipes[reqs[s].target].author, reqs[s].user)
     IN IF recipes[reqs[s].target].exists /\ ~NotificationRejects(d)
        THEN /\ notifications' = NotificationCreate(d)
             /\ ContinueNotified(s, "save")
        ELSE /\ notifications' = notifications
             /\ Finish(s, reqs, "NotificationError", NoData, recipes, userDocs, notifications)
  /\ UNCHANGED <<recipes, userDocs, comments, now, pureVars>>

\* await recipe.save(), then the response: isLiked: likedIndex === -1,
\* likesCount: recipe.likes.length of the in-memory document
toggleLikeRecipe_save(s) ==
  /\ Busy(s) /\ reqs[s].op = "like" /\ reqs[s].pc = "save"
  /\ LET r == reqs[s].target
         u == reqs[s].user
         data == <<reqs[s].delta.index = 0, likesCount(reqs[s].doc)>>
     IN IF reqs[s].delta.kind = "push"
        THEN IF ~recipes[r].exists
             THEN /\ recipes' = recipes
                  /\ Finish(s, reqs, "DocumentNotFoundError", NoData,
                            recipes, userDocs, notifications)
             ELSE /\ Len(recipes[r].likes) < MaxArrayLen
                  /\ LET rc == [recipes EXCEPT ![r].likes = Append(@, u)]
                     IN /\ recipes' = rc
                        /\ Finish(s, VersionBumped(reqs, s, r), "success", data,
                                  rc, userDocs, notifications)
        ELSE IF VersionMatches(s)
        THEN LET rc == [recipes EXCEPT ![r].likes = reqs[s].doc]
             IN /\ recipes' = rc
                /\ Finish(s, VersionBumped(reqs, s, r), "success", data,
                          rc, userDocs, notifications)
        ELSE /\ recipes' = recipes
             /\ Finish(s, reqs, "VersionError", NoData, recipes, userDocs, notifications)
  /\ UNCHANGED <<userDocs, notifications, comments, now, pureVars>>

\* ---------------------------------------------------------------------
\* Update operators of the store on an array field
\* ---------------------------------------------------------------------
\* (mutant: the element is pushed whether or not it is there)
AddToSet_pushes(arr, x) == Append(arr, x)

\* $addToSet: appends x unless the array already holds it
AddToSet(arr, x) == IF Contains(arr, x) THEN arr ELSE Append(arr, x)

\* $pull: removes every occurrence of x
Pull(arr, x) == SelectSeq(arr, LAMBDA e : e # x)

\* ---------------------------------------------------------------------
\* followUser / unfollowUser
\* ---------------------------------------------------------------------
\* (mutant: the self-follow check is missing)
SelfFollow_unchecked(currentUserId, userId) == FALSE

\* if (currentUserId === userId)
SelfFollow(currentUserId, userId) == currentUserId = userId

\* currentUser.following.some(id => id.toString() === userId)
IsFollowing(following, userId) == Contains(following, userId)

FollowNotification(currentUserId, userId) ==
  [recipient |-> userId, sender |-> currentUserId, type |-> "follow",
   hasTitle |-> FALSE, hasMessage |-> TRUE]

\* the self-follow check and User.findById(userId)
followUser(a, b) ==
  /\ UNCHANGED <<recipes, userDocs, notifications, comments, now, pureVars>>
  /\ IF SelfFollow(a, b)
     THEN Immediate("follow", a, b, 0, "ValidationError", NoData, 0,
                    recipes, userDocs, notifications)
     ELSE IF b \notin UserIds
     THEN Immediate("follow", a, b, 0, "NotFound", NoData, 1,
                    recipes, userDocs, notifications)
     ELSE Begin("follow", a, b, 0, "findCurrent", NoData, NoData)

\* User.findById(currentUserId) and the already-following check
followUser_findCurrent(s) ==
  /\ Busy(s) /\ reqs[s].op = "follow" /\ reqs[s].pc = "findCurrent"
  /\ IF IsFollowing(userDocs[reqs[s].user].following, reqs[s].target)
     THEN Finish(s, reqs, "ValidationError", NoData, recipes, userDocs, notifications)
     ELSE Continue(s, "addFollowing")
  /\ UNCHANGED <<recipes, userDocs, notifications, comments, now, pureVars>>

\* User.findByIdAndUpdate(currentUserId, { $addToSet: { following: userId } })
followUser_addFollowing(s) ==
  /\ Busy(s) /\ reqs[s].op = "follow" /\ reqs[s].pc = "addFollowing"
  /\ userDocs' = [userDocs EXCEPT ![reqs[s].user].following = AddToSet(@, reqs[s].target)]
  /\ Continue(s, "addFollowers")
  /\ UNCHANGED <<recipes, notifications, comments, now, pureVars>>

\* User.findByIdAndUpdate(userId, { $addToSet: { followers: currentUserId } })
\* (followersCount is a virtual of the schema, not a stored path)
followUser_addFollowers(s) ==
  /\ Busy(s) /\ reqs[s].op = "follow" /\ reqs[s].pc = "addFollowers"
  /\ userDocs' = [userDocs EXCEPT ![reqs[s].target].followers = AddToSet(@, reqs[s].user)]
  /\ Continue(s, "notify")
  /\ UNCHANGED <<recipes, notifications, comments, now, pureVars>>

\* await Notification.create({... type: 'follow' ...}), then the response
followUser_notify(s) ==
  /\ Busy(s) /\ reqs[s].op = "follow" /\ reqs[s].pc = "notify"
  /\ LET d == FollowNotification(reqs[s].user, reqs[s].target)
     IN IF NotificationRejects(d)
        THEN /\ notifications' = notifications
             /\ Finish(s, reqs, "NotificationError", NoData, recipes, userDocs, notifications)
        ELSE /\ notifications' = NotificationCreate(d)
             /\ Finish(s, reqs, "success", NoData, recipes, userDocs, NotificationCreate(d))
  /\ UNCHANGED <<recipes, userDocs, comments, now, pureVars>>

\* the self-unfollow check and User.findById(userId)
unfollowUser(a, b) ==
  /\ UNCHANGED <<recipes, userDocs, notifications, comments, now, pureVars>>
  /\ IF SelfFollow(a, b)
     THEN Immediate("unfollow", a, b, 0, "ValidationError", NoData, 0,
                    recipes, userDocs, notifications)
     ELSE IF b \notin UserIds
     THEN Immediate("unfollow", a, b, 0, "NotFound", NoData, 1,
                    recipes, userDocs, notifications)
     ELSE Begin("unfollow", a, b, 0, "findCurrent", NoData, NoData)

\* User.findById(currentUserId) and the currently-following check
unfollowUser_findCurrent(s) ==
  /\ Busy(s) /\ reqs[s].op = "unfollow" /\ reqs[s].pc = "findCurrent"
  /\ IF ~IsFollowing(userDocs[reqs[s].user].following, reqs[s].target)
     THEN Finish(s, reqs, "ValidationError", NoData, recipes, userDocs, notifications)
     ELSE Continue(s, "pullFollowing")
  /\ UNCHANGED <<recipes, userDocs, notifications, comments, now, pureVars>>

\* User.findByIdAndUpdate(currentUserId, { $pull: { following: userId } })
unfollowUser_pullFollowing(s) ==
  /\ Busy(s) /\ reqs[s].op = "unfollow" /\ reqs[s].pc = "pullFollowing"
  /\ userDocs' = [userDocs EXCEPT ![reqs[s].user].following = Pull(@, reqs[s].target)]
  /\ Continue(s, "pullFollowers")
  /\ UNCHANGED <<recipes, notifications, comments, now, pureVars>>

\* User.findByIdAndUpdate(userId, { $pull: { followers: currentUserId } }),
\* then the response
unfollowUser_pullFollowers(s) ==
  /\ Busy(s) /\ reqs[s].op = "unfollow" /\ reqs[s].pc = "pullFollowers"
  /\ LET ud == [userDocs EXCEPT ![reqs[s].target].followers = Pull(@, reqs[s].user)]
     IN /\ userDocs' = ud
        /\ Finish(s, reqs, "success", NoData, recipes, ud, notifications)
  /\ UNCHANGED <<recipes, notifications, comments, now, pureVars>>

\* ---------------------------------------------------------------------
\* addToFavorites / removeFromFavorites
\* ---------------------------------------------------------------------
\* user.favoriteRecipes.some(id => id.toString() === recipeId)
IsFavorite(favoriteRecipes, recipeId) == Contains(favoriteRecipes, recipeId)

\* Recipe.findById(recipeId)
addToFavorites(u, r) ==
  /\ UNCHANGED <<recipes, userDocs, notifications, comments, now, pureVars>>
  /\ IF r \notin RecipeIds \/ ~recipes[r].exists
     THEN Immediate("addFavorite", u, r, 0, "NotFound", NoData, 1,
                    recipes, userDocs, notifications)
     ELSE Begin("addFavorite", u, r, 0, "findUser", NoData, NoData)

\* User.findById(userId) and the already-in-favorites check
addToFavorites_findUser(s) ==
  /\ Busy(s) /\ reqs[s].op = "addFavorite" /\ reqs[s].pc = "findUser"
  /\ IF IsFavorite(userDocs[reqs[s].user].favoriteRecipes, reqs[s].target)
     THEN Finish(s, reqs, "ValidationError", NoData, recipes, userDocs, notifications)
     ELSE Continue(s, "update")
  /\ UNCHANGED <<recipes, userDocs, notifications, comments, now, pureVars>>

\* User.findByIdAndUpdate(userId, { $addToSet: { favoriteRecipes: recipeId } })
addToFavorites_update(s) ==
  /\ Busy(s) /\ reqs[s].op = "addFavorite" /\ reqs[s].pc = "update"
  /\ LET ud == [userDocs EXCEPT ![reqs[s].user].favoriteRecipes = AddToSet(@, reqs[s].target)]
     IN /\ Len(ud[reqs[s].user].favoriteRecipes) <= MaxArrayLen
        /\ userDocs' = ud
        /\ Finish(s, reqs, "success", NoData, recipes, ud, notifications)
  /\ UNCHANGED <<recipes, notifications, comments, now, pureVars>>

\* Recipe.findById(recipeId)
removeFromFavorites(u, r) ==
  /\ UNCHANGED <<recipes, userDocs, notifications, comments, now, pureVars>>
  /\ IF r \notin RecipeIds \/ ~recipes[r].exists
     THEN Immediate("removeFavorite", u, r, 0, "NotFound", NoData, 1,
                    recipes, userDocs, notifications)
     ELSE Begin("removeFavorite", u, r, 0, "findUser", NoData, NoData)

\* User.findById(userId) and the in-favorites check
removeFromFavorites_findUser(s) ==
  /\ Busy(s) /\ reqs[s].op = "removeFavorite" /\ reqs[s].pc = "findUser"
  /\ IF ~IsFavorite(userDocs[reqs[s].user].favoriteRecipes, reqs[s].target)
     THEN Finish(s, reqs, "ValidationError", NoData, recipes, userDocs, notifications)
     ELSE Continue(s, "update")
  /\ UNCHANGED <<recipes, userDocs, notifications, comments, now, pureVars>>

\* User.findByIdAndUpdate(userId, { $pull: { favoriteRecipes: recipeId } })
removeFromFavorites_update(s) ==
  /\ Busy(s) /\ reqs[s].op = "removeFavorite" /\ reqs[s].pc = "update"
  /\ LET ud == [userDocs EXCEPT ![reqs[s].user].favoriteRecipes = Pull(@, reqs[s].target)]
     IN /\ userDocs' = ud
        /\ Finish(s, reqs, "success", NoData, recipes, ud, notifications)
  /\ UNCHANGED <<recipes, notifications, comments, now, pureVars>>

\* ---------------------------------------------------------------------
\* getRecipeById
\* ---------------------------------------------------------------------
\* the caller of a route that needs no authentication
Anonymous == 0

\* Recipe.findById(req.params.id) with its populate calls, which read the User
\* and Comment collections only; then recipe.views += 1 on the loaded document
getRecipeById(r) ==
  /\ UNCHANGED <<recipes, userDocs, notifications, comments, now, pureVars>>
  /\ IF r \notin RecipeIds \/ ~recipes[r].exists
     THEN Immediate("getRecipeById", Anonymous, r, 0, "NotFound", NoData, 1,
                    recipes, userDocs, notifications)
     ELSE Begin("getRecipeById", Anonymous, r, 0, "save",
                [views |-> recipes[r].views + 1], NoData)

\* await recipe.save(): views is a number, the change is sent as
\* $set: { views: <the value computed from the loaded document> } with no
\* version check; then the response with the in-memory document
getRecipeById_save(s) ==
  /\ Busy(s) /\ reqs[s].op = "getRecipeById" /\ reqs[s].pc = "save"
  /\ LET r == reqs[s].target
     IN IF ~recipes[r].exists
        THEN /\ recipes' = recipes
             /\ Finish(s, reqs, "DocumentNotFoundError", NoData,
                       recipes, userDocs, notifications)
        ELSE LET rc == [recipes EXCEPT ![r].views = reqs[s].doc.views]
             IN /\ recipes' = rc
                /\ Finish(s, reqs, "success", <<reqs[s].doc.views>>,
                          rc, userDocs, notifications)
  /\ UNCHANGED <<userDocs, notifications, comments, now, pureVars>>

\* ---------------------------------------------------------------------
\* deleteRecipe
\* ---------------------------------------------------------------------
\* Recipe.findById(recipeId) and the author check
deleteRecipe(u, r) ==
  /\ UNCHANGED <<recipes, userDocs, notifications, comments, now, pureVars>>
  /\ IF r \notin RecipeIds \/ ~recipes[r].exists
     THEN Immediate("deleteRecipe", u, r, 0, "NotFound", NoData, 1,
                    recipes, userDocs, notifications)
     ELSE IF recipes[r].author # u
     THEN Immediate("deleteRecipe", u, r, 0, "AuthorizationError", NoData, 1,
                    recipes, userDocs, notifications)
     ELSE Begin("deleteRecipe", u, r, 0, "deleteComments", NoData, NoData)

\* Comment.deleteMany({ recipe: recipeId })
DeleteCommentsOf(cs, r) ==
  [c \in DOMAIN cs |-> IF cs[c].exists /\ cs[c].recipe = r THEN DeletedComment ELSE cs[c]]

deleteRecipe_deleteComments(s) ==
  /\ Busy(s) /\ reqs[s].op = "deleteRecipe" /\ reqs[s].pc = "deleteComments"
  /\ comments' = DeleteCommentsOf(comments, reqs[s].target)
  /\ Continue(s, "delete")
  /\ UNCHANGED <<recipes, userDocs, notifications, now, pureVars>>

\* Recipe.findByIdAndDelete(recipeId)
deleteRecipe_delete(s) ==
  /\ Busy(s) /\ reqs[s].op = "deleteRecipe" /\ reqs[s].pc = "delete"
  /\ recipes' = [recipes EXCEPT ![reqs[s].target] = IF @.exists THEN DeletedRecipe ELSE @]
  /\ Continue(s, "pullFavorites")
  /\ UNCHANGED <<userDocs, notifications, comments, now, pureVars>>

\* User.updateMany({ favoriteRecipes: recipeId }, { $pull: { favoriteRecipes: recipeId } })
PullFromAll(ud, r) ==
  [u \in DOMAIN ud |-> [ud[u] EXCEPT !.favoriteRecipes = Pull(@, r)]]

\* the updateMany, then the response
deleteRecipe_pullFavorites(s) ==
  /\ Busy(s) /\ reqs[s].op = "deleteRecipe" /\ reqs[s].pc = "pullFavorites"
  /\ LET ud == PullFromAll(userDocs, reqs[s].target)
     IN /\ userDocs' = ud
        /\ Finish(s, reqs, "success", NoData, recipes, ud, notifications)
  /\ UNCHANGED <<recipes, notifications, comments, now, pureVars>>

\* A deleteRecipe request stops after a step of its cascade: the store
\* operation it awaits next rejects (the connection to the store is lost), the
\* rejection goes through catchAsync to the error response and the rest of
\* the handler is not run.
deleteRecipe_stop(s) ==
  /\ Busy(s) /\ reqs[s].op = "deleteRecipe" /\ reqs[s].pc \in {"delete", "pullFavorites"}
  /\ Finish(s, reqs, "StoreError", NoData, recipes, userDocs, notifications)
  /\ UNCHANGED <<recipes, userDocs, notifications, comments, now, pureVars>>

\* ---------------------------------------------------------------------
\* Comments: addComment, deleteComment
\* ---------------------------------------------------------------------
\* req.body.parentComment when the comment is not a reply (absent, null or "")
NoParent == 0

\* a path that a document does not have; NoParent in a stored comment is null
Undefined == 0 - 1

\* commentSchema.parentComment, default: null: the value a new document gets
\* for the path
ParentDefault(v) == IF v = Undefined THEN NoParent ELSE v

\* what a request can name as parent: nothing, or any comment id
ParentParams == CommentIds \cup {NoParent}

\* the _id Comment.create gives the new document: one never used before
NextCommentId ==
  CHOOSE c \in CommentIds :
    /\ comments[c] = NoComment
    /\ \A d \in CommentIds : d < c => comments[d] # NoComment

\* if (!parent || parent.recipe.toString() !== recipeId)
InvalidParent(p, recipeId) ==
  \/ ~comments[p].exists
  \/ comments[p].recipe # recipeId

\* req.body.content of updateComment; a new comment starts with the first text
\* (no handler reads the text of a comment)
Contents == {"first", "second"}

NewContent == "first"

\* editedAt of a comment that was never updated (the path is not set)
NotEdited == 0 - 1

\* (mutant: the author check let everybody through)
NotAuthor_never(author, userId) == FALSE

\* comment.author.toString() !== userId
NotAuthor(author, userId) == author # userId

CommentNotification(author, u) ==
  [recipient |-> author, sender |-> u, type |-> "comment",
   hasTitle |-> FALSE, hasMessage |-> TRUE]

ReplyNotification(parentAuthor, u) ==
  [recipient |-> parentAuthor, sender |-> u, type |-> "reply",
   hasTitle |-> FALSE, hasMessage |-> TRUE]

\* Recipe.findById(recipeId); the loaded recipe's author is kept for line 38
addComment(u, r, p) ==
  /\ UNCHANGED <<recipes, userDocs, notifications, comments, now, pureVars>>
  /\ IF r \notin RecipeIds \/ ~recipes[r].exists
     THEN Immediate("addComment", u, r, p, "NotFound", NoData, 1,
                    recipes, userDocs, notifications)
     ELSE Begin("addComment", u, r, p,
                IF p # NoParent THEN "findParent" ELSE "create",
                [author |-> recipes[r].author, comment |-> NoParent], NoData)

\* Comment.findById(parentComment) and the check of the parent
addComment_findParent(s) ==
  /\ Busy(s) /\ reqs[s].op = "addComment" /\ reqs[s].pc = "findParent"
  /\ IF InvalidParent(reqs[s].val, reqs[s].target)
     THEN Finish(s, reqs, "ValidationError", NoData, recipes, userDocs, notifications)
     ELSE Continue(s, "create")
  /\ UNCHANGED <<recipes, userDocs, notifications, comments, now, pureVars>>

\* Comment.create({content, author, recipe, parentComment}) and
\* comment.populate('author'), which reads the User collection only; then
\* the tests of lines 38 and 50
addComment_create(s) ==
  /\ Busy(s) /\ reqs[s].op = "addComment" /\ reqs[s].pc = "create"
  /\ \E c \in CommentIds : comments[c] = NoComment
  /\ LET c == NextCommentId
         u == reqs[s].user
         p == reqs[s].val
     IN /\ comments' = [comments EXCEPT ![c] =
             [exists |-> TRUE, deleted |-> FALSE, author |-> u,
              recipe |-> reqs[s].target,
              parentComment |-> ParentDefault(IF p # NoParent THEN p ELSE Undefined),
              likes |-> <<>>,
              content |-> NewContent, isEdited |-> FALSE, editedAt |-> NotEdited]]
        /\ IF NotifiesAuthor(reqs[s].doc.author, u)
           THEN /\ reqs' = [reqs EXCEPT ![s].pc = "notifyAuthor", ![s].dbOps = @ + 2,
                                        ![s].doc.comment = c]
                /\ log' = log
                /\ started' = started
           ELSE IF p # NoParent
           THEN /\ reqs' = [reqs EXCEPT ![s].pc = "findParentAgain", ![s].dbOps = @ + 2,
                                        ![s].doc.comment = c]
                /\ log' = log
                /\ started' = started
           ELSE Finish(s, reqs, "success", <<c>>, recipes, userDocs, notifications)
  /\ UNCHANGED <<recipes, userDocs, notifications, now, pureVars>>

\* await Notification.create({... type: 'comment' ...})
addComment_notifyAuthor(s) ==
  /\ Busy(s) /\ reqs[s].op = "addComment" /\ reqs[s].pc = "notifyAuthor"
  /\ LET d == CommentNotification(reqs[s].doc.author, reqs[s].user)
     IN IF NotificationRejects(d)
        THEN /\ notifications' = notifications
             /\ Finish(s, reqs, "NotificationError", NoData, recipes, userDocs, notifications)
        ELSE /\ notifications' = NotificationCreate(d)
             /\ IF reqs[s].val # NoParent
                THEN Continue(s, "findParentAgain")
                ELSE Finish(s, reqs, "success", <<reqs[s].doc.comment>>,
                            recipes, userDocs, NotificationCreate(d))
  /\ UNCHANGED <<recipes, userDocs, comments, now, pureVars>>

\* const parentCommentDoc = await Comment.findById(parentComment) and the test
\* of line 52
addComment_findParentAgain(s) ==
  /\ Busy(s) /\ reqs[s].op = "addComment" /\ reqs[s].pc = "findParentAgain"
  /\ LET p == reqs[s].val
     IN IF comments[p].exists /\ comments[p].author # reqs[s].user
        THEN /\ reqs' = [reqs EXCEPT ![s].pc = "notifyParent", ![s].dbOps = @ + 1,
                                     ![s].doc.author = comments[p].author]
             /\ log' = log
             /\ started' = started
        ELSE Finish(s, reqs, "success", <<reqs[s].doc.comment>>,
                    recipes, userDocs, notifications)
  /\ UNCHANGED <<recipes, userDocs, notifications, comments, now, pureVars>>

\* await Notification.create({... type: 'reply' ...}), then the response
addComment_notifyParent(s) ==
  /\ Busy(s) /\ reqs[s].op = "addComment" /\ reqs[s].pc = "notifyParent"
  /\ LET d == ReplyNotification(reqs[s].doc.author, reqs[s].user)
     IN IF NotificationRejects(d)
        THEN /\ notifications' = notifications
             /\ Finish(s, reqs, "NotificationError", NoData, recipes, userDocs, notifications)
        ELSE /\ notifications' = NotificationCreate(d)
             /\ Finish(s, reqs, "success", <<reqs[s].doc.comment>>,
                       recipes, userDocs, NotificationCreate(d))
  /\ UNCHANGED <<recipes, userDocs, comments, now, pureVars>>

\* Comment.findById(commentId) and the author check
deleteComment(u, c) ==
  /\ UNCHANGED <<recipes, userDocs, notifications, comments, now, pureVars>>
  /\ IF ~comments[c].exists
     THEN Immediate("deleteComment", u, c, 0, "NotFound", NoData, 1,
                    recipes, userDocs, notifications)
     ELSE IF NotAuthor(comments[c].author, u)
     THEN Immediate("deleteComment", u, c, 0, "AuthorizationError", NoData, 1,
                    recipes, userDocs, notifications)
     ELSE Begin("deleteComment", u, c, 0, "deleteReplies", NoData, NoData)

\* Comment.deleteMany({ parentComment: commentId })
DeleteReplies(cs, c) ==
  [d \in CommentIds |->
     IF cs[d].exists /\ cs[d].parentComment = c THEN DeletedComment ELSE cs[d]]

deleteComment_deleteReplies(s) ==
  /\ Busy(s) /\ reqs[s].op = "deleteComment" /\ reqs[s].pc = "deleteReplies"
  /\ comments' = DeleteReplies(comments, reqs[s].target)
  /\ Continue(s, "delete")
  /\ UNCHANGED <<recipes, userDocs, notifications, now, pureVars>>

\* Comment.findByIdAndDelete(commentId), then the response
deleteComment_delete(s) ==
  /\ Busy(s) /\ reqs[s].op = "deleteComment" /\ reqs[s].pc = "delete"
  /\ comments' = [comments EXCEPT ![reqs[s].target] =
                    IF @.exists THEN DeletedComment ELSE @]
  /\ Finish(s, reqs, "success", NoData, recipes, userDocs, notifications)
  /\ UNCHANGED <<recipes, userDocs, notifications, now, pureVars>>

\* Comment.findById(commentId) and the author check; content, isEdited and
\* editedAt are set on the loaded document
updateComment(u, c, content) ==
  /\ UNCHANGED <<recipes, userDocs, notifications, comments, now, pureVars>>
  /\ IF ~comments[c].exists
     THEN Immediate("updateComment", u, c, content, "NotFound", NoData, 1,
                    recipes, userDocs, notifications)
     ELSE IF NotAuthor(comments[c].author, u)
     THEN Immediate("updateComment", u, c, content, "AuthorizationError", NoData, 1,
                    recipes, userDocs, notifications)
     ELSE Begin("updateComment", u, c, content, "save",
                [content |-> content, isEdited |-> TRUE, editedAt |-> now], NoData)

\* await comment.save(): a $set of the three paths, which finds the document
\* by _id or rejects with DocumentNotFoundError; then comment.populate('author'),
\* which reads the User collection only, and the response
updateComment_save(s) ==
  /\ Busy(s) /\ reqs[s].op = "updateComment" /\ reqs[s].pc = "save"
  /\ LET c == reqs[s].target
     IN IF ~comments[c].exists
        THEN /\ comments' = comments
             /\ Finish(s, reqs, "DocumentNotFoundError", NoData,
                       recipes, userDocs, notifications)
        ELSE /\ comments' = [comments EXCEPT ![c].content = reqs[s].doc.content,
                                             ![c].isEdited = reqs[s].doc.isEdited,
                                             ![c].editedAt = reqs[s].doc.editedAt]
             /\ Finish(s, reqs, "success", <<c>>, recipes, userDocs, notifications)
  /\ UNCHANGED <<recipes, userDocs, notifications, now, pureVars>>

\* { recipe: recipeId, parentComment: { $exists: false } }: the comments of the
\* recipe that do not have the path parentComment
RootFilter(cs, recipeId) ==
  {c \in CommentIds : cs[c].exists /\ cs[c].recipe = recipeId
                        /\ cs[c].parentComment = Undefined}

RECURSIVE NewestFirst(_)
\* .sort({ createdAt: -1 }): ids are given in the order of creation
NewestFirst(ids) ==
  IF ids = {} THEN <<>>
  ELSE LET c == CHOOSE x \in ids : \A y \in ids : y <= x
       IN <<c>> \o NewestFirst(ids \ {c})

\* Recipe.findById(recipeId); the request carries no page and no limit
\* (page 1, limit 10: one page holds every comment of the model)
getRecipeComments(r) ==
  /\ UNCHANGED <<recipes, userDocs, notifications, comments, now, pureVars>>
  /\ IF r \notin RecipeIds \/ ~recipes[r].exists
     THEN Immediate("getRecipeComments", Anonymous, r, 0, "NotFound", NoData, 1,
                    recipes, userDocs, notifications)
     ELSE Begin("getRecipeComments", Anonymous, r, 0, "find",
                [comments |-> <<>>], NoData)

\* Comment.find(filter).populate(...).sort(...).skip(0).limit(10); the populate
\* calls read the User collection and the replies of the comments found
getRecipeComments_find(s) ==
  /\ Busy(s) /\ reqs[s].op = "getRecipeComments" /\ reqs[s].pc = "find"
  /\ reqs' = [reqs EXCEPT ![s].pc = "count", ![s].dbOps = @ + 1,
                          ![s].doc.comments = NewestFirst(RootFilter(comments, reqs[s].target))]
  /\ started' = started
  /\ log' = log
  /\ UNCHANGED <<recipes, userDocs, notifications, comments, now, pureVars>>

\* Comment.countDocuments(filter), then the response
getRecipeComments_count(s) ==
  /\ Busy(s) /\ reqs[s].op = "getRecipeComments" /\ reqs[s].pc = "count"
  /\ Finish(s, reqs, "success",
            [comments |-> reqs[s].doc.comments,
             total |-> Cardinality(RootFilter(comments, reqs[s].target))],
            recipes, userDocs, notifications)
  /\ UNCHANGED <<recipes, userDocs, notifications, comments, now, pureVars>>

\* ---------------------------------------------------------------------
\* Comment likes: likeComment, toggleCommentLike
\* ---------------------------------------------------------------------
\* comment.likes.includes(userId)
IsLikedBy(likes, u) == Contains(likes, u)

\* comment.likes.filter(id => !id.equals(userId))
WithoutLikesOf(likes, u) == SelectSeq(likes, LAMBDA e : e # u)

CommentLikeNotification(author, u) ==
  [recipient |-> author, sender |-> u, type |-> "like",
   hasTitle |-> FALSE, hasMessage |-> TRUE]

\* a save of comment c that increments its version key: every other request
\* that has loaded the comment now holds an old version
CommentVersionBumped(rq, s, c) ==
  [t \in Slots |->
     IF t # s /\ Busy(t) /\ rq[t].op \in {"likeComment", "toggleCommentLike"}
        /\ rq[t].target = c
     THEN [rq[t] EXCEPT !.stale = TRUE] ELSE rq[t]]

\* the version check of save on a Comment
CommentVersionMatches(s) == comments[reqs[s].target].exists /\ ~reqs[s].stale

\* Comment.findById(commentId), the already-liked check and the push
likeComment(u, c) ==
  /\ UNCHANGED <<recipes, userDocs, notifications, comments, now, pureVars>>
  /\ IF ~comments[c].exists
     THEN Immediate("likeComment", u, c, 0, "NotFound", NoData, 1,
                    recipes, userDocs, notifications)
     ELSE IF IsLikedBy(comments[c].likes, u)
     THEN Immediate("likeComment", u, c, 0, "ValidationError", NoData, 1,
                    recipes, userDocs, notifications)
     ELSE Begin("likeComment", u, c, 0, "save",
                [likes |-> Append(comments[c].likes, u), author |-> comments[c].author],
                [kind |-> "push", index |-> 0])

\* await comment.save() (a $push), then the test of line 27
likeComment_save(s) ==
  /\ Busy(s) /\ reqs[s].op = "likeComment" /\ reqs[s].pc = "save"
  /\ LET c == reqs[s].target
         u == reqs[s].user
     IN IF ~comments[c].exists
        THEN /\ comments' = comments
             /\ Finish(s, reqs, "DocumentNotFoundError", NoData,
                       recipes, userDocs, notifications)
        ELSE /\ Len(comments[c].likes) < MaxArrayLen
             /\ comments' = [comments EXCEPT ![c].likes = Append(@, u)]
             /\ IF NotifiesAuthor(reqs[s].doc.author, u)
                THEN /\ reqs' = [CommentVersionBumped(reqs, s, c) EXCEPT
                                   ![s].pc = "notify", ![s].dbOps = @ + 1]
                     /\ log' = log
                     /\ started' = started
                ELSE Finish(s, CommentVersionBumped(reqs, s, c), "success",
                            <<Len(reqs[s].doc.likes)>>, recipes, userDocs, notifications)
  /\ UNCHANGED <<recipes, userDocs, notifications, now, pureVars>>

\* await Notification.create({... type: 'like' ...}), then the response
likeComment_notify(s) ==
  /\ Busy(s) /\ reqs[s].op = "likeComment" /\ reqs[s].pc = "notify"
  /\ LET d == CommentLikeNotification(reqs[s].doc.author, reqs[s].user)
     IN IF NotificationRejects(d)
        THEN /\ notifications' = notifications
             /\ Finish(s, reqs, "NotificationError", NoData, recipes, userDocs, notifications)
        ELSE /\ notifications' = NotificationCreate(d)
             /\ Finish(s, reqs, "success", <<Len(reqs[s].doc.likes)>>,
                       recipes, userDocs, NotificationCreate(d))
  /\ UNCHANGED <<recipes, userDocs, comments, now, pureVars>>

\* Comment.findById(commentId) and the in-memory toggle up to the next await
toggleCommentLike(u, c) ==
  /\ UNCHANGED <<recipes, userDocs, notifications, comments, now, pureVars>>
  /\ IF ~comments[c].exists
     THEN Immediate("toggleCommentLike", u, c, 0, "NotFound", NoData, 1,
                    recipes, userDocs, notifications)
     ELSE LET isLiked == IsLikedBy(comments[c].likes, u)
          IN Begin("toggleCommentLike", u, c, 0,
                   IF ~isLiked /\ NotifiesAuthor(comments[c].author, u)
                   THEN "notify" ELSE "save",
                   [likes |-> IF isLiked THEN WithoutLikesOf(comments[c].likes, u)
                                         ELSE Append(comments[c].likes, u),
                    author |-> comments[c].author],
                   IF isLiked THEN [kind |-> "set", index |-> 0]
                              ELSE [kind |-> "push", index |-> 0])

\* await Notification.create({... type: 'like' ...})
toggleCommentLike_notify(s) ==
  /\ Busy(s) /\ reqs[s].op = "toggleCommentLike" /\ reqs[s].pc = "notify"
  /\ LET d == CommentLikeNotification(reqs[s].doc.author, reqs[s].user)
     IN IF NotificationRejects(d)
        THEN /\ notifications' = notifications
             /\ Finish(s, reqs, "NotificationError", NoData, recipes, userDocs, notifications)
        ELSE /\ notifications' = NotificationCreate(d)
             /\ ContinueNotified(s, "save")
  /\ UNCHANGED <<recipes, userDocs, comments, now, pureVars>>

\* await comment.save(), then the response: isLiked: !isLiked,
\* likesCount: comment.likes.length of the in-memory document
toggleCommentLike_save(s) ==
  /\ Busy(s) /\ reqs[s].op = "toggleCommentLike" /\ reqs[s].pc = "save"
  /\ LET c == reqs[s].target
         u == reqs[s].user
         data == <<reqs[s].delta.kind = "push", Len(reqs[s].doc.likes)>>
     IN IF reqs[s].delta.kind = "push"
        THEN IF ~comments[c].exists
             THEN /\ comments' = comments
                  /\ Finish(s, reqs, "DocumentNotFoundError", NoData,
                            recipes, userDocs, notifications)
             ELSE /\ Len(comments[c].likes) < MaxArrayLen
                  /\ comments' = [comments EXCEPT ![c].likes = Append(@, u)]
                  /\ Finish(s, CommentVersionBumped(reqs, s, c), "success", data,
                            recipes, userDocs, notifications)
        ELSE IF CommentVersionMatches(s)
        THEN /\ comments' = [comments EXCEPT ![c].likes = reqs[s].doc.likes]
             /\ Finish(s, CommentVersionBumped(reqs, s, c), "success", data,
                       recipes, userDocs, notifications)
        ELSE /\ comments' = comments
             /\ Finish(s, reqs, "VersionError", NoData, recipes, userDocs, notifications)
  /\ UNCHANGED <<recipes, userDocs, notifications, now, pureVars>>

\* ---------------------------------------------------------------------
\* Notifications: createNotification, markAsRead, getMyNotifications,
\* getUnreadCount, and the TTL index of the collection
\* ---------------------------------------------------------------------
\* Notification.findById(notificationId): the record is in the collection
NotificationFound(n) == n <= Len(notifications) /\ notifications[n].exists

\* created more than expireAfterSeconds before time t
Expired(d, t) == d.createdAt + ExpireAfterSeconds < t

\* the ids of the records a filter selects, in creation order
\* ({ recipient: userId } and { recipient: userId, isRead: false })
InboxOf(u) ==
  SelectSeq([i \in 1..Len(notifications) |-> i],
            LAMBDA i : notifications[i].exists /\ notifications[i].recipient = u)

UnreadOf(u) ==
  SelectSeq(InboxOf(u), LAMBDA i : ~notifications[i].isRead)

\* .sort({ createdAt: -1 }): newest first
Reversed(s) == [i \in 1..Len(s) |-> s[Len(s) + 1 - i]]

\* how many of the records ids names are older than the retention now
ExpiredAmong(ids) ==
  Cardinality({i \in 1..Len(ids) : Expired(notifications[ids[i]], now)})

\* the types createNotification is called with
CreateTypes == {"user_follow", "comment_reply"}

\* notificationSchema.statics.createNotification: throws for a self-action,
\* fills title and message from the type, then this.create(notificationData)
createNotification(recipient, sender, type) ==
  /\ UNCHANGED <<recipes, userDocs, comments, now, pureVars>>
  /\ IF recipient = sender
     THEN /\ notifications' = notifications
          /\ Immediate("createNotification", sender, recipient, 0, "Error", NoData, 0,
                       recipes, userDocs, notifications)
     ELSE LET d == [recipient |-> recipient, sender |-> sender, type |-> type,
                    hasTitle |-> TRUE, hasMessage |-> TRUE]
          IN /\ Len(notifications) < MaxNotifications
             /\ notifications' = NotificationCreate(d)
             /\ Immediate("createNotification", sender, recipient, 0,
                          IF NotificationRejects(d) THEN "ValidationError" ELSE "success",
                          NoData, 1, recipes, userDocs, NotificationCreate(d))

\* Notification.findById, the recipient check, and the in-memory update
\* isRead = true; readAt = new Date()
markAsRead(u, n) ==
  /\ UNCHANGED <<recipes, userDocs, notifications, comments, now, pureVars>>
  /\ IF ~NotificationFound(n)
     THEN Immediate("markAsRead", u, n, 0, "NotFound", NoData, 1,
                    recipes, userDocs, notifications)
     ELSE IF notifications[n].recipient # u
     THEN Immediate("markAsRead", u, n, 0, "AuthorizationError", NoData, 1,
                    recipes, userDocs, notifications)
     ELSE Begin("markAsRead", u, n, 0, "save", [isRead |-> TRUE, readAt |-> now], NoData)

\* await notification.save(): $set of the modified paths; the save rejects
\* when the document is no longer in the collection
markAsRead_save(s) ==
  /\ Busy(s) /\ reqs[s].op = "markAsRead" /\ reqs[s].pc = "save"
  /\ LET n == reqs[s].target
     IN IF NotificationFound(n)
        THEN LET nt == [notifications EXCEPT ![n].isRead = reqs[s].doc.isRead,
                                             ![n].readAt = reqs[s].doc.readAt]
             IN /\ notifications' = nt
                /\ Finish(s, reqs, "success", NoData, recipes, userDocs, nt)
        ELSE /\ notifications' = notifications
             /\ Finish(s, reqs, "DocumentNotFoundError", NoData,
                       recipes, userDocs, notifications)
  /\ UNCHANGED <<recipes, userDocs, comments, now, pureVars>>

\* Notification.find({ recipient: userId }).sort(...).skip(0).limit(20) with
\* the default page and limit
getMyNotifications(u) ==
  /\ UNCHANGED <<recipes, userDocs, notifications, comments, now, pureVars>>
  /\ Begin("getMyNotifications", u, 0, 0, "countTotal",
           [notifications |-> Reversed(InboxOf(u)), total |-> 0,
            expired |-> ExpiredAmong(InboxOf(u))], NoData)

\* Notification.countDocuments({ recipient: userId })
getMyNotifications_countTotal(s) ==
  /\ Busy(s) /\ reqs[s].op = "getMyNotifications" /\ reqs[s].pc = "countTotal"
  /\ reqs' = [reqs EXCEPT ![s].pc = "countUnread", ![s].dbOps = @ + 1,
                          ![s].doc.total = Len(InboxOf(reqs[s].user)),
                          ![s].doc.expired = @ + ExpiredAmong(InboxOf(reqs[s].user))]
  /\ log' = log
  /\ started' = started
  /\ UNCHANGED <<recipes, userDocs, notifications, comments, now, pureVars>>

\* Notification.countDocuments({ recipient: userId, isRead: false }), then
\* the response
getMyNotifications_countUnread(s) ==
  /\ Busy(s) /\ reqs[s].op = "getMyNotifications" /\ reqs[s].pc = "countUnread"
  /\ Finish(s, reqs, "success",
            [notifications |-> reqs[s].doc.notifications,
             unreadCount |-> Len(UnreadOf(reqs[s].user)),
             total |-> reqs[s].doc.total,
             expired |-> reqs[s].doc.expired + ExpiredAmong(UnreadOf(reqs[s].user))],
            recipes, userDocs, notifications)
  /\ UNCHANGED <<recipes, userDocs, notifications, comments, now, pureVars>>

\* Notification.countDocuments({ recipient: userId, isRead: false })
getUnreadCount(u) ==
  /\ UNCHANGED <<recipes, userDocs, notifications, comments, now, pureVars>>
  /\ Immediate("getUnreadCount", u, 0, 0, "success",
               [unreadCount |-> Len(UnreadOf(u)), expired |-> ExpiredAmong(UnreadOf(u))],
               1, recipes, userDocs, notifications)

\* time passes
Tick ==
  /\ now + TickDays * DaySeconds <= MaxDays * DaySeconds
  /\ now' = now + TickDays * DaySeconds
  /\ UNCHANGED <<recipes, userDocs, notifications, comments, reqs, log, started, pureVars>>

\* the store's TTL monitor on { createdAt: 1 }, expireAfterSeconds: a pass
\* removes the expired documents; when it runs is up to the store
PurgedNotification ==
  [recipient |-> AbsentId, sender |-> AbsentId, type |-> "", isRead |-> FALSE,
   exists |-> FALSE, createdAt |-> 0, readAt |-> NotRead]

TTLMonitor ==
  /\ \E i \in 1..Len(notifications) :
       notifications[i].exists /\ Expired(notifications[i], now)
  /\ notifications' =
       [i \in 1..Len(notifications) |->
          IF notifications[i].exists /\ Expired(notifications[i], now)
          THEN PurgedNotification ELSE notifications[i]]
  /\ UNCHANGED <<recipes, userDocs, comments, now, reqs, log, started, pureVars>>

\* ---------------------------------------------------------------------
\* Discovery: getAllRecipes and getRecipesByCuisine on a catalog of recipes
\* ---------------------------------------------------------------------
\* A recipe is created unpublished, with the isPublic of the request body
\* (default true), and is published by recipe.publish().  The catalog counts
\* the recipes of each cuisine by their two flags.
ClassFlags ==
  [listed   |-> [isPublished |-> TRUE,  isPublic |-> TRUE],
   unlisted |-> [isPublished |-> TRUE,  isPublic |-> FALSE],
   draft    |-> [isPublished |-> FALSE, isPublic |-> TRUE]]

Classes == {"listed", "unlisted", "draft"}

Cuisines == {"Italian", "Thai"}

\* how many recipes of one cuisine the catalog holds in each class
ClassCounts ==
  [listed : (0..MaxPerClass) \cup {MaxPageSize + 1},
   unlisted : 0..MaxPerClass,
   draft : 0..MaxPerClass]

Catalogs == [Cuisines -> ClassCounts]

\* parseInt of a query parameter that is absent or not a number
NaN == 0 - 1

\* parseInt(req.query.x as string) || d
ParseIntOr(x, d) == IF x = NaN \/ x = 0 THEN d ELSE x

PageInputs == {NaN} \cup (0..MaxPage)

LimitInputs == {NaN} \cup (0..MaxPerClass) \cup {DefaultLimit, MaxPageSize, MaxPageSize + 1}

\* req.query.cuisineType when the parameter is absent
NoFilter == ""

CuisineInputs == Cuisines \cup {NoFilter}

\* the cuisines a case-insensitive $regex of req.params.cuisineType matches
RegexMatches ==
  [italian |-> {"Italian"}, thai |-> {"Thai"}, a |-> {"Italian", "Thai"}, sushi |-> {}]

RegexInputs == {"italian", "thai", "a", "sushi"}

Min(a, b) == IF a < b THEN a ELSE b

Max(a, b) == IF a > b THEN a ELSE b

\* (mutant: the quotient rounded down)
MathCeil_floor(num, den) == num \div den

\* Math.ceil(num / den) for num >= 0 and den > 0
MathCeil(num, den) == (num + den - 1) \div den

\* buildSearchFilter: { isPublished: true } and, when the parameter is given,
\* cuisineType: query.cuisineType (the cuisines the condition lets through)
buildSearchFilter(cuisineType) ==
  [isPublished |-> TRUE,
   cuisines |-> IF cuisineType = NoFilter THEN Cuisines ELSE {cuisineType}]

\* the filter of getRecipesByCuisine:
\* { cuisineType: { $regex: cuisineType, $options: 'i' }, isPublished: true }
CuisineFilter(cuisineType) ==
  [isPublished |-> TRUE, cuisines |-> RegexMatches[cuisineType]]

\* the recipes of a class that a filter selects: Recipe.countDocuments(filter)
\* restricted to the class
RECURSIVE CountIn(_, _, _)
CountIn(cs, class, cat) ==
  IF cs = {} THEN 0
  ELSE LET c == CHOOSE x \in cs : TRUE
       IN cat[c][class] + CountIn(cs \ {c}, class, cat)

Selected(filter, class) ==
  IF ClassFlags[class].isPublished = filter.isPublished
  THEN CountIn(filter.cuisines, class, catalog)
  ELSE 0

\* Recipe.find(filter).sort(sort).skip(skip).limit(limit) and
\* Recipe.countDocuments(filter) on the catalog, and the pagination object of
\* the response.  Which of the selected recipes fall on the page depends on
\* their sort keys: any split of the page between the classes is possible.
Listing(op, filter, pageQ, limitQ) ==
  LET page == ParseIntOr(pageQ, DefaultPage)
      limit == ParseIntOr(limitQ, DefaultLimit)
      skip == (page - 1) * limit
      total == Selected(filter, "listed") + Selected(filter, "unlisted")
                 + Selected(filter, "draft")
      totalPages == MathCeil(total, limit)
      length == Min(limit, Max(0, total - skip))
  IN \E d \in 0..Min(length, Selected(filter, "draft")) :
     \E u \in 0..Min(length - d, Selected(filter, "unlisted")) :
       /\ length - d - u <= Selected(filter, "listed")
       /\ found' = [op |-> op, limitGiven |-> limitQ # NaN,
                    recipes |-> [listed |-> length - d - u, unlisted |-> u, draft |-> d],
                    page |-> page, limit |-> limit, total |-> total,
                    totalPages |-> totalPages,
                    hasNextPage |-> page < totalPages,
                    hasPrevPage |-> page > 1]

getAllRecipes(pageQ, limitQ, cuisineType) ==
  /\ found = NoData
  /\ Listing("getAllRecipes", buildSearchFilter(cuisineType), pageQ, limitQ)
  /\ UNCHANGED <<recipes, userDocs, notifications, comments, now, reqs, log, started,
                 avgIn, avgOut, catalog, searchIn, searchOut>>

getRecipesByCuisine(pageQ, limitQ, cuisineType) ==
  /\ found = NoData
  /\ Listing("getRecipesByCuisine", CuisineFilter(cuisineType), pageQ, limitQ)
  /\ UNCHANGED <<recipes, userDocs, notifications, comments, now, reqs, log, started,
                 avgIn, avgOut, catalog, searchIn, searchOut>>

\* ---------------------------------------------------------------------
\* Ingredient search: the 'ingredients.name' condition of buildSearchFilter
\* ---------------------------------------------------------------------
\* Strings are sequences of characters.  Ingredient names are made of letters;
\* a query can also hold the separator and blanks.
Letters == {"a", "A", "b"}

Comma == ","

Blank == " "

QueryChars == Letters \cup {Comma, Blank}

\* the character a case-insensitive comparison (flag 'i') takes for c
LowerCase == [c \in QueryChars |-> IF c = "A" THEN "a" ELSE c]

StringsOver(chars, n) == UNION {[1..k -> chars] : k \in 0..n}

\* req.query.ingredients; the empty string stands for an absent parameter too
\* (both are falsy)
IngredientQueries == StringsOver(QueryChars, MaxQueryLen)

IngredientNames == StringsOver(Letters, MaxNameLen) \ {<<>>}

\* recipe.ingredients.map(i => i.name): the schema wants at least one ingredient
NameArrays == UNION {[1..k -> IngredientNames] : k \in 1..MaxIngredients}

RECURSIVE Split(_, _)
\* String.prototype.split(sep)
Split(str, sep) ==
  IF ~Contains(str, sep) THEN <<str>>
  ELSE LET i == FindIndex(str, sep)
       IN <<SubSeq(str, 1, i - 1)>> \o Split(SubSeq(str, i + 1, Len(str)), sep)

RECURSIVE Trim(_)
\* String.prototype.trim()
Trim(str) ==
  IF str # <<>> /\ Head(str) = Blank THEN Trim(Tail(str))
  ELSE IF str # <<>> /\ str[Len(str)] = Blank THEN Trim(SubSeq(str, 1, Len(str) - 1))
  ELSE str

\* query.ingredients.split(',').map(ing => ing.trim())
ingredientList(query) ==
  LET parts == Split(query, Comma)
  IN [k \in 1..Len(parts) |-> Trim(parts[k])]

\* new RegExp(ing, 'i') tested on a name: the pattern, a string of letters and
\* blanks, occurs somewhere in the name, letter case aside
RegExpTest(ing, name) ==
  \E off \in 0..(Len(name) - Len(ing)) :
    \A i \in 1..Len(ing) : LowerCase[name[off + i]] = LowerCase[ing[i]]

\* { 'ingredients.name': { $in: [regex, ...] } } on a recipe: some element of
\* the array field matches some regex of the list
InMatches(names, list) ==
  \E n \in 1..Len(names) : \E k \in 1..Len(list) : RegExpTest(list[k], names[n])

\* buildSearchFilter(req.query) for a query with the ingredients parameter only,
\* applied to one published recipe by Recipe.find(filter)
searchByIngredients ==
  /\ searchIn # NoData
  /\ searchOut = NoData
  /\ searchOut' =
       [returned |-> IF searchIn.query = <<>> THEN TRUE
                     ELSE InMatches(searchIn.names, ingredientList(searchIn.query))]
  /\ UNCHANGED <<recipes, userDocs, notifications, comments, now, reqs, log, started,
                 avgIn, avgOut, catalog, found, searchIn>>

\* ---------------------------------------------------------------------
\* Specifications
\* ---------------------------------------------------------------------
Init ==
  /\ recipes = [r \in RecipeIds |-> NoDoc]
  /\ userDocs = [u \in UserIds |-> [following |-> <<>>, followers |-> <<>>,
                                    favoriteRecipes |-> <<>>]]
  /\ notifications = <<>>
  /\ comments = [c \in CommentIds |-> NoComment]
  /\ now = 0
  /\ reqs = [s \in Slots |-> Idle]
  /\ log = <<>>
  /\ started = 0
  /\ catalog = NoData
  /\ found = NoData
  /\ avgIn = <<>>
  /\ avgOut = NoData
  /\ searchIn = NoData
  /\ searchOut = NoData

NextRate ==
  \/ \E u \in UserIds : createRecipe(u)
  \/ \E u \in UserIds, r \in RecipeParams, v \in RatingInputs : rateRecipe(u, r, v)
  \/ \E s \in Slots : rateRecipe_notify(s)
  \/ \E s \in Slots : rateRecipe_save(s)

SpecRate == Init /\ [][NextRate]_vars

NextLike ==
  \/ \E u \in UserIds : createRecipe(u)
  \/ \E u \in UserIds, r \in RecipeParams : toggleLikeRecipe(u, r)
  \/ \E s \in Slots : toggleLikeRecipe_notify(s)
  \/ \E s \in Slots : toggleLikeRecipe_save(s)

SpecLike == Init /\ [][NextLike]_vars

NextSocial ==
  \/ \E a \in UserIds, b \in UserParams : followUser(a, b)
  \/ \E s \in Slots : followUser_findCurrent(s)
  \/ \E s \in Slots : followUser_addFollowing(s)
  \/ \E s \in Slots : followUser_addFollowers(s)
  \/ \E s \in Slots : followUser_notify(s)
  \/ \E a \in UserIds, b \in UserParams : unfollowUser(a, b)
  \/ \E s \in Slots : unfollowUser_findCurrent(s)
  \/ \E s \in Slots : unfollowUser_pullFollowing(s)
  \/ \E s \in Slots : unfollowUser_pullFollowers(s)

SpecSocial == Init /\ [][NextSocial]_vars

\* followUser requests only: nobody unfollows
NextFollow ==
  \/ MoreRequests /\ \E a \in UserIds, b \in UserParams : followUser(a, b)
  \/ \E s \in Slots : followUser_findCurrent(s)
  \/ \E s \in Slots : followUser_addFollowing(s)
  \/ \E s \in Slots : followUser_addFollowers(s)
  \/ \E s \in Slots : followUser_notify(s)

SpecFollow == Init /\ [][NextFollow]_vars

NextFav ==
  \/ \E u \in UserIds : createRecipe(u)
  \/ \E u \in UserIds, r \in RecipeParams : addToFavorites(u, r)
  \/ \E s \in Slots : addToFavorites_findUser(s)
  \/ \E s \in Slots : addToFavorites_update(s)
  \/ \E u \in UserIds, r \in RecipeParams : removeFromFavorites(u, r)
  \/ \E s \in Slots : removeFromFavorites_findUser(s)
  \/ \E s \in Slots : removeFromFavorites_update(s)

SpecFav == Init /\ [][NextFav]_vars

\* MoreRequests: the bound on the requests of one behaviour is not reached
NextComment ==
  \/ MoreRequests /\ \E u \in UserIds : createRecipe(u)
  \/ MoreRequests /\ \E u \in UserIds, r \in RecipeParams, p \in ParentParams : addComment(u, r, p)
  \/ \E s \in Slots : addComment_findParent(s)
  \/ \E s \in Slots : addComment_create(s)
  \/ \E s \in Slots : addComment_notifyAuthor(s)
  \/ \E s \in Slots : addComment_findParentAgain(s)
  \/ \E s \in Slots : addComment_notifyParent(s)
  \/ MoreRequests /\ \E u \in UserIds, c \in CommentIds : deleteComment(u, c)
  \/ \E s \in Slots : deleteComment_deleteReplies(s)
  \/ \E s \in Slots : deleteComment_delete(s)

SpecComment == Init /\ [][NextComment]_vars

\* the handlers that write a comment's text or remove a comment
NextEdit ==
  \/ MoreRequests /\ \E u \in UserIds : createRecipe(u)
  \/ MoreRequests /\ \E u \in UserIds, r \in RecipeParams, p \in ParentParams : addComment(u, r, p)
  \/ \E s \in Slots : addComment_findParent(s)
  \/ \E s \in Slots : addComment_create(s)
  \/ \E s \in Slots : addComment_notifyAuthor(s)
  \/ \E s \in Slots : addComment_findParentAgain(s)
  \/ \E s \in Slots : addComment_notifyParent(s)
  \/ MoreRequests /\ \E u \in UserIds, c \in CommentIds, t \in Contents : updateComment(u, c, t)
  \/ \E s \in Slots : updateComment_save(s)
  \/ MoreRequests /\ \E u \in UserIds, c \in CommentIds : deleteComment(u, c)
  \/ \E s \in Slots : deleteComment_deleteReplies(s)
  \/ \E s \in Slots : deleteComment_delete(s)

SpecEdit == Init /\ [][NextEdit]_vars

\* every handler that emits a notification
NextNotify ==
  \/ MoreRequests /\ \E u \in UserIds : createRecipe(u)
  \/ MoreRequests /\ \E u \in UserIds, r \in RecipeParams, v \in RatingInputs : rateRecipe(u, r, v)
  \/ \E s \in Slots : rateRecipe_notify(s)
  \/ \E s \in Slots : rateRecipe_save(s)
  \/ MoreRequests /\ \E u \in UserIds, r \in RecipeParams : toggleLikeRecipe(u, r)
  \/ \E s \in Slots : toggleLikeRecipe_notify(s)
  \/ \E s \in Slots : toggleLikeRecipe_save(s)
  \/ MoreRequests /\ \E a \in UserIds, b \in UserParams : followUser(a, b)
  \/ \E s \in Slots : followUser_findCurrent(s)
  \/ \E s \in Slots : followUser_addFollowing(s)
  \/ \E s \in Slots : followUser_addFollowers(s)
  \/ \E s \in Slots : followUser_notify(s)
  \/ MoreRequests /\ \E u \in UserIds, r \in RecipeParams, p \in ParentParams : addComment(u, r, p)
  \/ \E s \in Slots : addComment_findParent(s)
  \/ \E s \in Slots : addComment_create(s)
  \/ \E s \in Slots : addComment_notifyAuthor(s)
  \/ \E s \in Slots : addComment_findParentAgain(s)
  \/ \E s \in Slots : addComment_notifyParent(s)
  \/ MoreRequests /\ \E u \in UserIds, c \in CommentIds : likeComment(u, c)
  \/ \E s \in Slots : likeComment_save(s)
  \/ \E s \in Slots : likeComment_notify(s)
  \/ MoreRequests /\ \E u \in UserIds, c \in CommentIds : toggleCommentLike(u, c)
  \/ \E s \in Slots : toggleCommentLike_notify(s)
  \/ \E s \in Slots : toggleCommentLike_save(s)

SpecNotify == Init /\ [][NextNotify]_vars

\* the comments of a recipe and their listing
NextListing ==
  \/ MoreRequests /\ \E u \in UserIds : createRecipe(u)
  \/ MoreRequests /\ \E u \in UserIds, r \in RecipeParams, p \in ParentParams : addComment(u, r, p)
  \/ \E s \in Slots : addComment_findParent(s)
  \/ \E s \in Slots : addComment_create(s)
  \/ \E s \in Slots : addComment_notifyAuthor(s)
  \/ \E s \in Slots : addComment_findParentAgain(s)
  \/ \E s \in Slots : addComment_notifyParent(s)
  \/ MoreRequests /\ \E u \in UserIds, c \in CommentIds : deleteComment(u, c)
  \/ \E s \in Slots : deleteComment_deleteReplies(s)
  \/ \E s \in Slots : deleteComment_delete(s)
  \/ MoreRequests /\ \E r \in RecipeParams : getRecipeComments(r)
  \/ \E s \in Slots : getRecipeComments_find(s)
  \/ \E s \in Slots : getRecipeComments_count(s)

SpecListing == Init /\ [][NextListing]_vars

\* fetches of a recipe
NextViews ==
  \/ MoreRequests /\ \E u \in UserIds : createRecipe(u)
  \/ MoreRequests /\ \E r \in RecipeParams : getRecipeById(r)
  \/ \E s \in Slots : getRecipeById_save(s)

SpecViews == Init /\ [][NextViews]_vars

\* addToFavorites and deleteRecipe, every request running to its end
NextCascade ==
  \/ MoreRequests /\ \E u \in UserIds : createRecipe(u)
  \/ MoreRequests /\ \E u \in UserIds, r \in RecipeParams : addToFavorites(u, r)
  \/ \E s \in Slots : addToFavorites_findUser(s)
  \/ \E s \in Slots : addToFavorites_update(s)
  \/ MoreRequests /\ \E u \in UserIds, r \in RecipeParams : deleteRecipe(u, r)
  \/ \E s \in Slots : deleteRecipe_deleteComments(s)
  \/ \E s \in Slots : deleteRecipe_delete(s)
  \/ \E s \in Slots : deleteRecipe_pullFavorites(s)

SpecCascade == Init /\ [][NextCascade]_vars

\* deleteRecipe with the handlers that make what its cascade removes; a
\* deleteRecipe request can stop after a step
NextRetry ==
  \/ MoreRequests /\ \E u \in UserIds : createRecipe(u)
  \/ MoreRequests /\ \E u \in UserIds, r \in RecipeParams : addToFavorites(u, r)
  \/ \E s \in Slots : addToFavorites_findUser(s)
  \/ \E s \in Slots : addToFavorites_update(s)
  \/ MoreRequests /\ \E u \in UserIds, r \in RecipeParams, p \in ParentParams : addComment(u, r, p)
  \/ \E s \in Slots : addComment_findParent(s)
  \/ \E s \in Slots : addComment_create(s)
  \/ \E s \in Slots : addComment_notifyAuthor(s)
  \/ \E s \in Slots : addComment_findParentAgain(s)
  \/ \E s \in Slots : addComment_notifyParent(s)
  \/ MoreRequests /\ \E u \in UserIds, r \in RecipeParams : deleteRecipe(u, r)
  \/ \E s \in Slots : deleteRecipe_deleteComments(s)
  \/ \E s \in Slots : deleteRecipe_delete(s)
  \/ \E s \in Slots : deleteRecipe_pullFavorites(s)
  \/ \E s \in Slots : deleteRecipe_stop(s)

SpecRetry == Init /\ [][NextRetry]_vars

\* the three handlers that create their notification before they save, with
\* the handlers that make the documents they save and that delete them
NextAtomic ==
  \/ MoreRequests /\ \E u \in UserIds : createRecipe(u)
  \/ MoreRequests /\ \E u \in UserIds, r \in RecipeParams, v \in RatingInputs : rateRecipe(u, r, v)
  \/ \E s \in Slots : rateRecipe_notify(s)
  \/ \E s \in Slots : rateRecipe_save(s)
  \/ MoreRequests /\ \E u \in UserIds, r \in RecipeParams : toggleLikeRecipe(u, r)
  \/ \E s \in Slots : toggleLikeRecipe_notify(s)
  \/ \E s \in Slots : toggleLikeRecipe_save(s)
  \/ MoreRequests /\ \E u \in UserIds, r \in RecipeParams, p \in ParentParams : addComment(u, r, p)
  \/ \E s \in Slots : addComment_findParent(s)
  \/ \E s \in Slots : addComment_create(s)
  \/ \E s \in Slots : addComment_notifyAuthor(s)
  \/ \E s \in Slots : addComment_findParentAgain(s)
  \/ \E s \in Slots : addComment_notifyParent(s)
  \/ MoreRequests /\ \E u \in UserIds, c \in CommentIds : toggleCommentLike(u, c)
  \/ \E s \in Slots : toggleCommentLike_notify(s)
  \/ \E s \in Slots : toggleCommentLike_save(s)
  \/ MoreRequests /\ \E u \in UserIds, r \in RecipeParams : deleteRecipe(u, r)
  \/ \E s \in Slots : deleteRecipe_deleteComments(s)
  \/ \E s \in Slots : deleteRecipe_delete(s)
  \/ \E s \in Slots : deleteRecipe_pullFavorites(s)

SpecAtomic == Init /\ [][NextAtomic]_vars

NextInbox ==
  \/ MoreRequests /\ \E recipient, sender \in UserIds, type \in CreateTypes :
                       createNotification(recipient, sender, type)
  \/ MoreRequests /\ \E u \in UserIds, n \in 1..MaxNotifications : markAsRead(u, n)
  \/ \E s \in Slots : markAsRead_save(s)
  \/ MoreRequests /\ \E u \in UserIds : getMyNotifications(u)
  \/ \E s \in Slots : getMyNotifications_countTotal(s)
  \/ \E s \in Slots : getMyNotifications_countUnread(s)
  \/ MoreRequests /\ \E u \in UserIds : getUnreadCount(u)
  \/ Tick
  \/ TTLMonitor

SpecInbox == Init /\ [][NextInbox]_vars

Next ==
  \/ NextRate \/ NextLike \/ NextSocial \/ NextFollow \/ NextFav
  \/ NextComment \/ NextEdit \/ NextListing \/ NextNotify \/ NextAtomic \/ NextInbox
  \/ NextViews \/ NextCascade \/ NextRetry

Spec == Init /\ [][Next]_vars

\* ---------------------------------------------------------------------
\* The rating virtuals and the in-memory update of rateRecipe on their own:
\* any ratings array of up to MaxRatings entries, entry i rated by user i
\* ---------------------------------------------------------------------
RatingValues == MinRating..MaxRating

AvgUsers == 1..MaxRatings

RatingArrays ==
  UNION {{[i \in 1..n |-> [userId |-> i, rating |-> f[i]]] : f \in [1..n -> RatingValues]}
         : n \in 0..MaxRatings}

InitAvg ==
  /\ recipes = [r \in RecipeIds |-> NoDoc]
  /\ userDocs = [u \in UserIds |-> [following |-> <<>>, followers |-> <<>>,
                                    favoriteRecipes |-> <<>>]]
  /\ notifications = <<>>
  /\ comments = [c \in CommentIds |-> NoComment]
  /\ now = 0
  /\ reqs = [s \in Slots |-> Idle]
  /\ log = <<>>
  /\ started = 0
  /\ catalog = NoData
  /\ found = NoData
  /\ avgIn \in RatingArrays
  /\ avgOut = NoData
  /\ searchIn = NoData
  /\ searchOut = NoData

\* reading recipe.averageRating and recipe.ratingsCount
ReadAverage ==
  /\ avgOut = NoData
  /\ avgOut' = [op |-> "read", averageRating |-> averageRating(avgIn),
                ratingsCount |-> ratingsCount(avgIn)]
  /\ UNCHANGED <<recipes, userDocs, notifications, comments, now, reqs, log, started, avgIn,
               catalog, found, searchIn, searchOut>>

\* the if/else of rateRecipe on the loaded array and the data of its response
UpdateRatings(u, v) ==
  /\ avgOut = NoData
  /\ ~InvalidRating(v)
  /\ existingRatingIndex(avgIn, u) > 0 \/ Len(avgIn) < MaxRatings
  /\ avgIn' = RatedArray(avgIn, u, v)
  /\ avgOut' = [op |-> "rate", user |-> u, val |-> v, before |-> avgIn,
                averageRating |-> averageRating(avgIn'),
                totalRatings |-> Len(avgIn')]
  /\ UNCHANGED <<recipes, userDocs, notifications, comments, now, reqs, log, started,
               catalog, found, searchIn, searchOut>>

NextAvg ==
  \/ ReadAverage
  \/ \E u \in AvgUsers, v \in RatingInputs : UpdateRatings(u, v)

SpecAvg == InitAvg /\ [][NextAvg]_vars

\* discovery queries on any catalog
InitDiscovery ==
  /\ recipes = [r \in RecipeIds |-> NoDoc]
  /\ userDocs = [u \in UserIds |-> [following |-> <<>>, followers |-> <<>>,
                                    favoriteRecipes |-> <<>>]]
  /\ notifications = <<>>
  /\ comments = [c \in CommentIds |-> NoComment]
  /\ now = 0
  /\ reqs = [s \in Slots |-> Idle]
  /\ log = <<>>
  /\ started = 0
  /\ avgIn = <<>>
  /\ avgOut = NoData
  /\ catalog \in Catalogs
  /\ found = NoData
  /\ searchIn = NoData
  /\ searchOut = NoData

NextDiscovery ==
  \/ \E p \in PageInputs, l \in LimitInputs, c \in CuisineInputs : getAllRecipes(p, l, c)
  \/ \E p \in PageInputs, l \in LimitInputs, c \in RegexInputs : getRecipesByCuisine(p, l, c)

SpecDiscovery == InitDiscovery /\ [][NextDiscovery]_vars

\* the ingredient search on any recipe and any query
InitSearch ==
  /\ recipes = [r \in RecipeIds |-> NoDoc]
  /\ userDocs = [u \in UserIds |-> [following |-> <<>>, followers |-> <<>>,
                                    favoriteRecipes |-> <<>>]]
  /\ notifications = <<>>
  /\ comments = [c \in CommentIds |-> NoComment]
  /\ now = 0
  /\ reqs = [s \in Slots |-> Idle]
  /\ log = <<>>
  /\ started = 0
  /\ avgIn = <<>>
  /\ avgOut = NoData
  /\ catalog = NoData
  /\ found = NoData
  /\ searchIn \in [names : NameArrays, query : IngredientQueries]
  /\ searchOut = NoData

NextSearch == searchByIngredients

SpecSearch == InitSearch /\ [][NextSearch]_vars

\* ---------------------------------------------------------------------
\* Properties
\* ---------------------------------------------------------------------
\* the last two responses are those of two requests that ran one after the
\* other, with nothing else in flight: op1 and then op2 by the same caller on
\* the same target
SuccessivePair(op1, op2) ==
  /\ Len(log) = 2
  /\ ~log[1].overlap /\ ~log[2].overlap
  /\ log[1].op = op1 /\ log[2].op = op2
  /\ log[1].user = log[2].user
  /\ log[1].target = log[2].target

RatingsOf(snap, r) == snap.recipes[r].ratings

LikesOf(snap, r) == snap.recipes[r].likes

EntriesOf(rs, u) == {i \in 1..Len(rs) : rs[i].userId = u}

\* a rate request the interface accepts: a value in 1..5 for a recipe that exists
AcceptedRate(resp) == resp.status \notin {"ValidationError", "NotFound"}

\* C1: when a user rates a recipe and then, after the first request has
\* completed, rates it again, the ratings hold exactly one entry of that user,
\* the entry carries the second value, and the number of ratings is the same
\* as after the first call.
C1_SecondRatingOverwrites ==
  (SuccessivePair("rate", "rate") /\ AcceptedRate(log[1]) /\ AcceptedRate(log[2])) =>
    LET u == log[2].user
        rs == RatingsOf(log[2].post, log[2].target)
    IN /\ Cardinality(EntriesOf(rs, u)) = 1
       /\ \A i \in EntriesOf(rs, u) : rs[i].rating = log[2].val
       /\ Len(rs) = Len(RatingsOf(log[1].post, log[1].target))

\* C2: in every reachable state, whatever the interleaving of rateRecipe
\* requests, the ratings of a recipe contain at most one entry per user.
C2_OneRatingPerUser ==
  \A r \in RecipeIds : recipes[r].exists =>
    \A u \in UserIds : Cardinality(EntriesOf(recipes[r].ratings, u)) <= 1

\* C5: two successive completed toggleLikeRecipe calls of the same user on the
\* same recipe leave the like set as it was before the first call, return
\* likesCount to its original value, and answer with opposite isLiked flags.
C5_ToggleLikeIsInvolution ==
  (SuccessivePair("like", "like") /\ log[1].status # "NotFound" /\ log[2].status # "NotFound") =>
    /\ LikesOf(log[2].post, log[2].target) = LikesOf(log[1].pre, log[1].target)
    /\ Len(log[1].data) = 2 /\ Len(log[2].data) = 2
    /\ log[2].data[2] = Len(LikesOf(log[1].pre, log[1].target))
    /\ log[1].data[1] # log[2].data[1]

\* the sum of the values of a ratings array, counted value by value
SumByValue(rs) ==
  LET n(k) == Cardinality({i \in 1..Len(rs) : rs[i].rating = k})
  IN n(1) + 2 * n(2) + 3 * n(3) + 4 * n(4) + 5 * n(5)

\* t is the mean of the values of rs in tenths, rounded half up:
\* t - 1/2 <= 10 * sum / n < t + 1/2
IsRound1OfMean(t, rs) ==
  /\ 2 * Len(rs) * t <= 20 * SumByValue(rs) + Len(rs)
  /\ 20 * SumByValue(rs) + Len(rs) < 2 * Len(rs) * (t + 1)

\* C3: for any ratings array with values in 1..5, averageRating is the mean of
\* the values rounded half up to one decimal place, and 0 for the empty array.
C3_AverageIsRoundedMean ==
  (avgOut # NoData /\ avgOut.op = "read") =>
    /\ Len(avgIn) = 0 => avgOut.averageRating = 0
    /\ Len(avgIn) > 0 => IsRound1OfMean(avgOut.averageRating, avgIn)
    /\ avgOut.ratingsCount = Len(avgIn)

C3_Witness ==
  /\ avgOut # NoData /\ avgOut.op = "read"
  /\ Len(avgIn) = 4 /\ SumByValue(avgIn) = 5
  /\ avgOut.averageRating = 13

\* the scenario of C4: four ratings of 5 by four users, and a fifth user's 1
FiveFiveFiveFiveThenOne ==
  /\ avgOut # NoData /\ avgOut.op = "rate"
  /\ Len(avgOut.before) = 4
  /\ \A i \in 1..4 : avgOut.before[i].rating = 5
  /\ existingRatingIndex(avgOut.before, avgOut.user) = 0
  /\ avgOut.val = 1

GraphOf(snap) ==
  [u \in UserIds |-> [following |-> snap.userDocs[u].following,
                      followers |-> snap.userDocs[u].followers]]

\* the follow notifications of sender a to recipient b
FollowNotes(nt, a, b) ==
  {i \in 1..Len(nt) : nt[i].type \in {"follow", "user_follow"}
                      /\ nt[i].sender = a /\ nt[i].recipient = b}

\* C6: followUser(a, a) always fails with ValidationError, before any lookup,
\* and leaves every following and followers set and the notifications as
\* they were.
C6_SelfFollowRejected ==
  \A i \in 1..Len(log) :
    (log[i].op = "follow" /\ log[i].user = log[i].target) =>
      /\ log[i].status = "ValidationError"
      /\ log[i].dbOps = 0
      /\ log[i].post = log[i].pre
      /\ \A s \in Slots : Busy(s) /\ reqs[s].op = "follow" => reqs[s].user # reqs[s].target

C6_Witness ==
  /\ \E i \in 1..Len(log) :
       /\ log[i].op = "follow" /\ log[i].user = log[i].target
       /\ log[i].status = "ValidationError"
  /\ \E u \in UserIds : userDocs[u].following # <<>>

\* a follow request that passed its checks and made its two updates
FollowApplied(resp) == resp.op = "follow" /\ resp.status \in {"success", "NotificationError"}

C8_GraphSymmetricWhenQuiescent ==
  (~AnyBusy) =>
    \A a, b \in UserIds :
      Contains(userDocs[b].followers, a) <=> Contains(userDocs[a].following, b)

\* C9: after A follows B, B is in A.following, A is in B.followers and exactly
\* one follow notification from A to B exists; when A then follows B again the
\* call fails with Conflict, creates no notification and changes neither set.
C9_FollowOnceThenConflict ==
  (/\ SuccessivePair("follow", "follow")
   /\ log[1].user # log[1].target /\ log[1].target \in UserIds
   /\ ~Contains(log[1].pre.userDocs[log[1].user].following, log[1].target)) =>
    LET a == log[1].user
        b == log[1].target
    IN /\ Contains(log[1].post.userDocs[a].following, b)
       /\ Contains(log[1].post.userDocs[b].followers, a)
       /\ Cardinality(FollowNotes(log[1].post.notifications, a, b)) = 1
       /\ log[2].status = "Conflict"
       /\ log[2].post = log[2].pre

FavoritesOf(snap, u) == snap.userDocs[u].favoriteRecipes

RecipeExistsIn(snap, r) == r \in RecipeIds /\ snap.recipes[r].exists

\* what a favorites request that ran on its own must answer, given the store
\* it found: errorKind is the kind of the presence-check failure
FavoriteOutcome(resp, errorKind) ==
  LET u == resp.user
      r == resp.target
      wasIn == Contains(FavoritesOf(resp.pre, u), r)
      failed == resp.status # "success"
  IN /\ ~RecipeExistsIn(resp.pre, r) => resp.status = "NotFound"
     /\ (RecipeExistsIn(resp.pre, r) /\ resp.op = "addFavorite" /\ wasIn)
          => resp.status = errorKind
     /\ (RecipeExistsIn(resp.pre, r) /\ resp.op = "removeFavorite" /\ ~wasIn)
          => resp.status = errorKind
     /\ failed => resp.post.userDocs = resp.pre.userDocs

IsFavoriteResponse(resp) == resp.op \in {"addFavorite", "removeFavorite"} /\ ~resp.overlap

NoDuplicateFavorites == \A u \in UserIds : NoDuplicates(userDocs[u].favoriteRecipes)

RepliesIn(cs) == {c \in CommentIds : cs[c].exists /\ cs[c].parentComment # NoParent}

\* an addComment or deleteComment request is in progress
CommentRequestInProgress ==
  \E s \in Slots : Busy(s) /\ reqs[s].op \in {"addComment", "deleteComment"}

\* C11: in every state in which no comment request is in progress, every
\* comment with a non-null parentComment refers to a comment that still exists.
C11_NoOrphanReplies ==
  ~CommentRequestInProgress =>
    \A c \in RepliesIn(comments) : comments[comments[c].parentComment].exists

\* C12: comment nesting is exactly one level deep: in every reachable state
\* the parent of every reply is a root comment (its own parentComment is null).
C12_NestingOneLevel ==
  \A c \in RepliesIn(comments) :
    LET p == comments[c].parentComment
    IN comments[p].exists => comments[p].parentComment = NoParent

\* the request of slot s is at an await of Notification.create
AtNotificationCreate(s) ==
  Busy(s) /\ reqs[s].pc \in {"notify", "notifyAuthor", "notifyParent"}

\* the recipient of the document that request hands to Notification.create
PendingRecipient(s) ==
  IF reqs[s].op \in {"rate", "like"} THEN recipes[reqs[s].target].author
  ELSE IF reqs[s].op = "follow" THEN reqs[s].target
  ELSE reqs[s].doc.author

\* C13: in every reachable state, after any sequence of rateRecipe,
\* toggleLikeRecipe, addComment, likeComment, toggleCommentLike and followUser
\* operations, no notification record has recipient equal to sender; and no
\* handler hands Notification.create a document with recipient equal to sender.
C13_NoSelfNotification ==
  /\ \A i \in 1..Len(notifications) :
        notifications[i].recipient # notifications[i].sender
  /\ \A s \in Slots :
        AtNotificationCreate(s) => PendingRecipient(s) # reqs[s].user

\* a user has liked their own comment through toggleCommentLike, the request
\* has succeeded, and another request is waiting at Notification.create
C13_Witness ==
  /\ Len(log) > 0
  /\ log[Len(log)].op = "toggleCommentLike"
  /\ log[Len(log)].status = "success"
  /\ comments[log[Len(log)].target].exists
  /\ comments[log[Len(log)].target].author = log[Len(log)].user
  /\ IsLikedBy(comments[log[Len(log)].target].likes, log[Len(log)].user)
  /\ \E s \in Slots : AtNotificationCreate(s)

\* Notification.create has rejected in the request of response r
NotificationFailed(r) == r.status = "NotificationError"

\* the rating, like or follow of the request of response r is in the store
\* when the response is sent (requests that ran on their own)
MutationPersisted(r) ==
  IF r.overlap THEN TRUE
  ELSE IF r.op = "rate" THEN EntriesOf(RatingsOf(r.post, r.target), r.user) # {}
  ELSE IF r.op = "like" THEN Contains(LikesOf(r.post, r.target), r.user)
  ELSE IF r.op = "follow"
  THEN /\ Contains(r.post.userDocs[r.user].following, r.target)
       /\ Contains(r.post.userDocs[r.target].followers, r.user)
  ELSE TRUE

\* C14: a failure of notification persistence never aborts the primary
\* mutation: whenever Notification.create fails during rateRecipe,
\* toggleLikeRecipe, addComment, a comment like or followUser, the rating /
\* like / comment / follow is still persisted and the request reports success.
C14_NotificationFailureSwallowed ==
  \A i \in 1..Len(log) :
    NotificationFailed(log[i]) =>
      /\ log[i].status = "success"
      /\ MutationPersisted(log[i])

\* C15: the notify operation called with recipient equal to sender is a silent
\* no-op: it returns without an error and creates no record.
C15_SelfNotifyIsSilentNoOp ==
  \A i \in 1..Len(log) :
    (log[i].op = "createNotification" /\ log[i].target = log[i].user) =>
      /\ log[i].status = "success"
      /\ log[i].post.notifications = log[i].pre.notifications

\* record n is in the collection nt
FoundIn(nt, n) == n <= Len(nt) /\ nt[n].exists

\* C16: markAsRead succeeds only for the notification's recipient (any other
\* caller gets AuthorizationError and the record is unchanged), and it is
\* idempotent: marking an already-read notification read again succeeds and
\* leaves the record, including isRead and readAt, as it was.
C16_MarkAsReadAuthorizedIdempotent ==
  \A i \in 1..Len(log) :
    LET r == log[i]
    IN (r.op = "markAsRead" /\ ~r.overlap /\ FoundIn(r.pre.notifications, r.target)) =>
         LET before == r.pre.notifications[r.target]
         IN /\ before.recipient # r.user =>
                 /\ r.status = "AuthorizationError"
                 /\ r.post.notifications = r.pre.notifications
            /\ (before.recipient = r.user /\ before.isRead) =>
                 /\ r.status = "success"
                 /\ r.post.notifications[r.target] = before

\* C17: a notification created more than 30 days ago is never returned by
\* getMyNotifications and never counted by getUnreadCount or by the list's
\* total, whether or not the store has physically purged it yet.
C17_ExpiredNeverVisible ==
  \A i \in 1..Len(log) :
    log[i].op \in {"getMyNotifications", "getUnreadCount"} => log[i].data.expired = 0

\* C18: every recipe returned by a discovery query (getAllRecipes with any
\* combination of query parameters, and the by-cuisine listing) has
\* isPublished = true and isPublic = true.
C18_DiscoveryOnlyPublic ==
  found # NoData =>
    \A class \in Classes :
      found.recipes[class] > 0 =>
        ClassFlags[class].isPublished /\ ClassFlags[class].isPublic

\* C19: for getAllRecipes with any number total of matching recipes, any limit
\* L >= 1 and any page >= 1: totalPages equals ceil(total / L) (the least t
\* with t * L >= total), hasNextPage is true exactly when page < totalPages,
\* and hasPrevPage is true exactly when page > 1.
C19_PaginationArithmetic ==
  (found # NoData /\ found.op = "getAllRecipes" /\ found.limit >= 1 /\ found.page >= 1) =>
    /\ found.totalPages * found.limit >= found.total
    /\ (found.totalPages - 1) * found.limit < found.total
    /\ found.hasNextPage <=> (found.page < found.totalPages)
    /\ found.hasPrevPage <=> (found.page > 1)

\* page 2 of 11: 101 matching recipes listed 10 to a page
C19_Witness ==
  /\ found # NoData
  /\ found.op = "getAllRecipes"
  /\ found.total = MaxPageSize + 1
  /\ found.limit = DefaultLimit
  /\ found.page = 2
  /\ found.totalPages = 11
  /\ found.hasNextPage
  /\ found.hasPrevPage

\* C20: the page size of getAllRecipes is 10 when no limit is given and never
\* exceeds 100 for any requested limit, so no response page contains more than
\* 100 recipes.
C20_PageSizeBounded ==
  (found # NoData /\ found.op = "getAllRecipes") =>
    /\ ~found.limitGiven => found.limit = DefaultLimit
    /\ found.limit <= MaxPageSize
    /\ found.recipes["listed"] + found.recipes["unlisted"] + found.recipes["draft"]
         <= MaxPageSize
\* every ingredient of the list occurs in the name of some ingredient of the recipe
AllIngredientsMatch(names, list) ==
  \A k \in 1..Len(list) : \E n \in 1..Len(names) : RegExpTest(list[k], names[n])

\* C21: when an ingredient list is given, the search returns a recipe exactly
\* when every listed ingredient matches the name of one of the recipe's
\* ingredients; a recipe that matches only some of them is not returned.
C21_AllIngredientsMustMatch ==
  (searchOut # NoData /\ searchIn.query # <<>>) =>
    (searchOut.returned <=>
       AllIngredientsMatch(searchIn.names, ingredientList(searchIn.query)))

\* the response sent in this step, if one is sent
LastResponse == log'[Len(log')]

\* this step answers an arriving request at once with the given error
AnsweredAtOnce(ops, status) ==
  /\ started' # started
  /\ \A s \in Slots : Busy(s)' <=> Busy(s)
  /\ LastResponse.op \in ops
  /\ LastResponse.status = status

\* this step ends the request of slot s with a success response
Succeeds(s, op) ==
  /\ Busy(s) /\ reqs[s].op = op
  /\ ~Busy(s)'
  /\ LastResponse.op = op /\ LastResponse.status = "success"

\* C22: updateComment or deleteComment by anybody but the comment's author
\* fails with AuthorizationError and changes no comment; no request of another
\* user ever gets to write or remove the comment; a successful updateComment
\* stores the new content with isEdited = true.
C22_OnlyAuthorEditsOrDeletes ==
  [][/\ \A u \in UserIds, c \in CommentIds :
          (/\ comments[c].exists /\ comments[c].author # u
           /\ started' # started
           /\ LastResponse.op \in {"updateComment", "deleteComment"}
           /\ LastResponse.user = u /\ LastResponse.target = c
           /\ log' # log)
          => /\ \A s \in Slots : Busy(s)' <=> Busy(s)
             /\ LastResponse.status = "AuthorizationError"
             /\ comments' = comments
     /\ AnsweredAtOnce({"updateComment", "deleteComment"}, "AuthorizationError")
          => comments' = comments
     /\ \A s \in Slots :
          (Busy(s) /\ reqs[s].op \in {"updateComment", "deleteComment"}
             /\ comments[reqs[s].target].exists)
          => comments[reqs[s].target].author = reqs[s].user
     /\ \A s \in Slots :
          Succeeds(s, "updateComment")
          => /\ comments'[reqs[s].target].content = reqs[s].val
             /\ comments'[reqs[s].target].isEdited]_vars

\* another user's updateComment was refused and then the author's went through
C22_Witness ==
  /\ Len(log) = 2
  /\ log[1].op = "updateComment" /\ log[1].status = "AuthorizationError"
  /\ log[2].op = "updateComment" /\ log[2].status = "success"
  /\ log[2].target = log[1].target /\ log[2].val = "second"
  /\ comments[log[2].target].exists
  /\ comments[log[2].target].author = log[2].user
  /\ comments[log[2].target].content = "second"
  /\ comments[log[2].target].isEdited

\* the request of response r has stored its comment: it ended after Comment.create
CommentStored(r) == r.status \in {"success", "NotificationError"}

\* the notifications created while the request of response r ran (on its own)
CreatedDuring(r) ==
  [i \in 1..(Len(r.post.notifications) - Len(r.pre.notifications)) |->
     LET d == r.post.notifications[Len(r.pre.notifications) + i]
     IN [recipient |-> d.recipient, sender |-> d.sender, type |-> d.type]]

\* the notifications an addComment of user u owes: one to the recipe's author
\* p, then one to the parent comment's author q, each unless it is u
OwedByAddComment(u, p, isReply, q) ==
  (IF p # u THEN <<[recipient |-> p, sender |-> u, type |-> "comment"]>> ELSE <<>>)
    \o (IF isReply /\ q # u THEN <<[recipient |-> q, sender |-> u, type |-> "reply"]>>
        ELSE <<>>)

\* C23: an addComment by u that stores its comment on a recipe of author p
\* succeeds and creates exactly one 'comment' notification to p when p # u and
\* none when p = u, and for a reply to a comment of q exactly one 'reply'
\* notification to q when q # u and none when q = u; it creates no other.
C23_AddCommentNotifications ==
  \A i \in 1..Len(log) :
    LET r == log[i]
    IN (/\ r.op = "addComment" /\ ~r.overlap /\ CommentStored(r)
        /\ (r.val # NoParent => comments[r.val].exists))
       => /\ r.status = "success"
          /\ CreatedDuring(r) =
               OwedByAddComment(r.user, r.pre.recipes[r.target].author, r.val # NoParent,
                                IF r.val # NoParent THEN comments[r.val].author ELSE r.user)

\* the handlers that await Notification.create before document.save()
NotifyThenSave == {"rate", "like", "toggleCommentLike"}

\* the rating or like of the request in slot s is in the store after this step
PersistedAfter(s) ==
  IF reqs[s].op = "rate"
  THEN recipes'[reqs[s].target].exists
       /\ existingRatingIndex(recipes'[reqs[s].target].ratings, reqs[s].user) > 0
  ELSE IF reqs[s].op = "like"
  THEN recipes'[reqs[s].target].exists
       /\ Contains(recipes'[reqs[s].target].likes, reqs[s].user)
  ELSE comments'[reqs[s].target].exists
       /\ IsLikedBy(comments'[reqs[s].target].likes, reqs[s].user)

FullyCascaded(r) ==
  /\ ~recipes[r].exists
  /\ \A c \in CommentIds : comments[c].exists => comments[c].recipe # r
  /\ \A u \in UserIds : ~IsFavorite(userDocs[u].favoriteRecipes, r)

\* C25: when a deleteRecipe request has stopped after a step of its cascade
\* and the author's next request, a deleteRecipe of the same recipe, has been
\* answered, the recipe, its comments and every favorite entry for it are gone.
C25_DeleteRecipeRetrySafe ==
  (/\ Len(log) = 2 /\ ~AnyBusy
   /\ log[1].op = "deleteRecipe" /\ log[1].status = "StoreError"
   /\ log[2].op = "deleteRecipe" /\ log[2].status # "StoreError"
   /\ log[2].user = log[1].user /\ log[2].target = log[1].target)
  => FullyCascaded(log[2].target)

\* C26: the stored views of a recipe never decreases, and every getRecipeById
\* request that completes adds exactly 1 to it (so that N completed requests
\* leave the initial value plus N), whatever the interleaving.
C26_ViewsMonotonicCounter ==
  [][\A r \in RecipeIds :
       (recipes[r].exists /\ recipes'[r].exists)
       => /\ recipes'[r].views >= recipes[r].views
          /\ \A s \in Slots :
               (Succeeds(s, "getRecipeById") /\ reqs[s].target = r)
               => recipes'[r].views = recipes[r].views + 1]_vars

\* the comments of recipe r that exist and are not replies
RootsOf(r) ==
  {c \in CommentIds : comments[c].exists /\ comments[c].recipe = r
                        /\ comments[c].parentComment = NoParent}

\* C27: getRecipeComments(X), run on its own, returns exactly the root
\* comments of recipe X that exist then: a comment added without a parent is
\* listed until it is deleted.
C27_ListingShowsRootComments ==
  (/\ log # <<>> /\ ~AnyBusy
   /\ log[Len(log)].op = "getRecipeComments"
   /\ log[Len(log)].status = "success"
   /\ ~log[Len(log)].overlap)
  => /\ {log[Len(log)].data.comments[i] : i \in 1..Len(log[Len(log)].data.comments)}
          = RootsOf(log[Len(log)].target)
     /\ log[Len(log)].data.total = Cardinality(RootsOf(log[Len(log)].target))

\* the users who like a recipe with the likes array ls
Likers(ls) == {ls[i] : i \in 1..Len(ls)}

\* C28: in every reachable state, whatever the interleaving of
\* toggleLikeRecipe requests, no user id occurs twice in recipe.likes and
\* likesCount is the number of distinct users who like the recipe.
C28_LikesAreASet ==
  \A r \in RecipeIds : recipes[r].exists =>
    /\ NoDuplicates(recipes[r].likes)
    /\ likesCount(recipes[r].likes) = Cardinality(Likers(recipes[r].likes))

C30_NoDanglingFavorites ==
  ~AnyBusy =>
    \A u \in UserIds :
      \A i \in 1..Len(userDocs[u].favoriteRecipes) :
        recipes[userDocs[u].favoriteRecipes[i]].exists

====
